---- MODULE Spec2Model ----
(***************************************************************************)
(* Model of the LLM resilience layer of replo-hq:                          *)
(*   - call_llm               (backend/app/workers/analysis_worker.py)     *)
(*   - get_available_providers, call_llm_with_fallback                     *)
(*                            (backend/app/core/llm_fallback.py)           *)
(*   - create_llm_provider and the error messages the providers raise      *)
(*                            (backend/app/core/llm_providers.py)          *)
(* Error messages are Python strings and are modelled as strings: the      *)
(* code classifies an error by substring tests on its text.                *)
(***************************************************************************)
EXTENDS Integers, Sequences, FiniteSets, TLC

(***************************************************************************)
(* Bounds of the model.                                                    *)
(***************************************************************************)
\* largest max_retries given to call_llm (every caller uses the default 3)
MaxAttempts == 3
\* largest retry_delay (seconds) given to call_llm (the default is 2)
MaxDelay == 2
\* largest max_retries given to call_llm_with_fallback (the default is 3)
MaxProviders == 3
\* number of successive get_available_providers calls on the same settings
MaxCalls == 2
MaxModules == 2

(***************************************************************************)
(* Python string operations used by the code.                              *)
(***************************************************************************)
UpperChars == "ABCDEFGHIJKLMNOPQRSTUVWXYZ"
LowerChars == "abcdefghijklmnopqrstuvwxyz"

CharAt(s, i) == SubSeq(s, i, i)

\* c.lower() for a one-character string
LowerChar(c) ==
    IF \E i \in 1..26 : CharAt(UpperChars, i) = c
    THEN CharAt(LowerChars, CHOOSE i \in 1..26 : CharAt(UpperChars, i) = c)
    ELSE c

\* c.upper() for a one-character string
UpperChar(c) ==
    IF \E i \in 1..26 : CharAt(LowerChars, i) = c
    THEN CharAt(UpperChars, CHOOSE i \in 1..26 : CharAt(LowerChars, i) = c)
    ELSE c

RECURSIVE StrLower(_)
\* s.lower()
StrLower(s) ==
    IF Len(s) = 0 THEN ""
    ELSE IF Len(s) = 1 THEN LowerChar(s)
    ELSE LET half == Len(s) \div 2
         IN  StrLower(SubSeq(s, 1, half)) \o StrLower(SubSeq(s, half + 1, Len(s)))

RECURSIVE StrUpper(_)
\* s.upper()
StrUpper(s) ==
    IF Len(s) = 0 THEN ""
    ELSE IF Len(s) = 1 THEN UpperChar(s)
    ELSE LET half == Len(s) \div 2
         IN  StrUpper(SubSeq(s, 1, half)) \o StrUpper(SubSeq(s, half + 1, Len(s)))

\* sub in s
Contains(s, sub) ==
    \E i \in 1..(Len(s) - Len(sub) + 1) : SubSeq(s, i, i + Len(sub) - 1) = sub

\* s[:n]
Prefix(s, n) == SubSeq(s, 1, IF Len(s) < n THEN Len(s) ELSE n)

RECURSIVE StrReplace(_, _, _)
\* s.replace(old, new), old non-empty
StrReplace(s, old, new) ==
    IF Len(s) < Len(old) THEN s
    ELSE IF SubSeq(s, 1, Len(old)) = old
         THEN new \o StrReplace(SubSeq(s, Len(old) + 1, Len(s)), old, new)
         ELSE CharAt(s, 1) \o StrReplace(SubSeq(s, 2, Len(s)), old, new)

\* str.isspace() for the ASCII whitespace characters (also the regex \s)
IsSpace(c) == c \in {" ", "\t", "\n", "\r", "\f"}

RECURSIVE StripLeft(_)
StripLeft(s) ==
    IF Len(s) > 0 /\ IsSpace(CharAt(s, 1)) THEN StripLeft(SubSeq(s, 2, Len(s))) ELSE s

RECURSIVE StripRight(_)
StripRight(s) ==
    IF Len(s) > 0 /\ IsSpace(CharAt(s, Len(s)))
    THEN StripRight(SubSeq(s, 1, Len(s) - 1)) ELSE s

\* s.strip()
StrStrip(s) == StripRight(StripLeft(s))

\* Python's None
None == "<None>"
\* Python's {}
EmptyDict == [k \in {} |-> k]

(***************************************************************************)
(* json.loads on the JSON subset the texts of this model are written in:   *)
(* objects, arrays, strings without escapes, integers, true, false, null.  *)
(* A parsed value is a record of one shape for every JSON type, so that    *)
(* any two values can be compared.                                         *)
(***************************************************************************)
JValue(t, s, n, keys, items) ==
    [t |-> t, s |-> s, n |-> n, keys |-> keys, items |-> items]

JNull == JValue("null", "", 0, <<>>, <<>>)
JStr(s) == JValue("str", s, 0, <<>>, <<>>)
JInt(n) == JValue("int", "", n, <<>>, <<>>)
JBool(b) == JValue("bool", "", IF b THEN 1 ELSE 0, <<>>, <<>>)
JList(items) == JValue("list", "", 0, <<>>, items)
JDict(keys, items) == JValue("dict", "", 0, keys, items)

\* d[key] = val on a dict: a repeated key keeps its place, the last value wins
DictSet(d, key, val) ==
    IF \E i \in 1..Len(d.keys) : d.keys[i] = key
    THEN LET i == CHOOSE i \in 1..Len(d.keys) : d.keys[i] = key
         IN  JDict(d.keys, [d.items EXCEPT ![i] = val])
    ELSE JDict(Append(d.keys, key), Append(d.items, val))

RECURSIVE DeepEqual(_, _)
\* Python's == on parsed values: dicts compare without order, True == 1
DeepEqual(a, b) ==
    IF a.t \in {"int", "bool"} /\ b.t \in {"int", "bool"} THEN a.n = b.n
    ELSE /\ a.t = b.t
         /\ a.s = b.s
         /\ Len(a.items) = Len(b.items)
         /\ IF a.t = "dict"
            THEN \A i \in 1..Len(a.keys) :
                    \E j \in 1..Len(b.keys) :
                       /\ b.keys[j] = a.keys[i]
                       /\ DeepEqual(a.items[i], b.items[j])
            ELSE \A i \in 1..Len(a.items) : DeepEqual(a.items[i], b.items[i])

\* the whitespace json.loads skips between tokens
IsJsonSpace(c) == c \in {" ", "\t", "\n", "\r"}

Digits == "0123456789"
IsDigit(c) == \E d \in 1..10 : CharAt(Digits, d) = c
DigitValue(c) == (CHOOSE d \in 1..10 : CharAt(Digits, d) = c) - 1

RECURSIVE SkipJsonSpace(_, _)
SkipJsonSpace(s, i) ==
    IF i <= Len(s) /\ IsJsonSpace(CharAt(s, i)) THEN SkipJsonSpace(s, i + 1)
    ELSE i

\* a failed parse; a successful one is [ok, val, pos] with pos the next index
ParseFail == [ok |-> FALSE, val |-> JNull, pos |-> 0]
Parsed(val, pos) == [ok |-> TRUE, val |-> val, pos |-> pos]

\* a string starting at the quote s[i]
ParseString(s, i) ==
    IF \E j \in (i + 1)..Len(s) : CharAt(s, j) = "\""
    THEN LET j == CHOOSE j \in (i + 1)..Len(s) :
                     /\ CharAt(s, j) = "\""
                     /\ \A k \in (i + 1)..(j - 1) : CharAt(s, k) # "\""
         IN  IF \E k \in (i + 1)..(j - 1) :
                    CharAt(s, k) \in {"\\", "\n", "\t", "\r", "\f"}
             THEN ParseFail
             ELSE Parsed(JStr(SubSeq(s, i + 1, j - 1)), j + 1)
    ELSE ParseFail

RECURSIVE DigitsEnd(_, _)
\* the index after the run of digits starting at i
DigitsEnd(s, i) ==
    IF i <= Len(s) /\ IsDigit(CharAt(s, i)) THEN DigitsEnd(s, i + 1) ELSE i

RECURSIVE DigitsValue(_, _, _)
DigitsValue(s, i, j) ==
    IF j < i THEN 0
    ELSE 10 * DigitsValue(s, i, j - 1) + DigitValue(CharAt(s, j))

\* an integer starting at s[i], a digit or a minus sign
ParseInt(s, i) ==
    LET neg == CharAt(s, i) = "-"
        b == IF neg THEN i + 1 ELSE i
        e == DigitsEnd(s, b)
    IN  IF e = b THEN ParseFail
        ELSE IF CharAt(s, b) = "0" /\ e > b + 1 THEN Parsed(JInt(0), b + 1)
        ELSE Parsed(JInt((IF neg THEN -1 ELSE 1) * DigitsValue(s, b, e - 1)), e)

\* s[a-1:b], the part of s between the indexes a and b that exists
Slice(s, a, b) ==
    SubSeq(s, IF a < 1 THEN 1 ELSE a, IF b > Len(s) THEN Len(s) ELSE b)

ParseLiteral(s, i) ==
    IF Slice(s, i, i + 3) = "true" THEN Parsed(JBool(TRUE), i + 4)
    ELSE IF Slice(s, i, i + 4) = "false" THEN Parsed(JBool(FALSE), i + 5)
    ELSE IF Slice(s, i, i + 3) = "null" THEN Parsed(JNull, i + 4)
    ELSE ParseFail

RECURSIVE ParseValue(_, _)
RECURSIVE ParseItems(_, _, _)
RECURSIVE ParseMembers(_, _, _)

\* the items of an array from s[i] on, after "[" or ","
ParseItems(s, i, items) ==
    LET r == ParseValue(s, i)
        j == SkipJsonSpace(s, r.pos)
    IN  IF ~r.ok \/ j > Len(s) THEN ParseFail
        ELSE IF CharAt(s, j) = "]" THEN Parsed(JList(Append(items, r.val)), j + 1)
        ELSE IF CharAt(s, j) = ","
             THEN ParseItems(s, SkipJsonSpace(s, j + 1), Append(items, r.val))
        ELSE ParseFail

\* the members of an object from s[i] on, after "{" or ","
ParseMembers(s, i, d) ==
    IF i > Len(s) \/ CharAt(s, i) # "\"" THEN ParseFail
    ELSE LET k == ParseString(s, i)
             c == SkipJsonSpace(s, k.pos)
         IN  IF ~k.ok \/ c > Len(s) \/ CharAt(s, c) # ":" THEN ParseFail
             ELSE LET r == ParseValue(s, SkipJsonSpace(s, c + 1))
                      j == SkipJsonSpace(s, r.pos)
                      d2 == DictSet(d, k.val.s, r.val)
                  IN  IF ~r.ok \/ j > Len(s) THEN ParseFail
                      ELSE IF CharAt(s, j) = "}" THEN Parsed(d2, j + 1)
                      ELSE IF CharAt(s, j) = ","
                           THEN ParseMembers(s, SkipJsonSpace(s, j + 1), d2)
                      ELSE ParseFail

\* one JSON value starting at s[i]
ParseValue(s, i) ==
    IF i > Len(s) THEN ParseFail
    ELSE LET c == CharAt(s, i) IN
         IF c = "{"
         THEN LET j == SkipJsonSpace(s, i + 1)
              IN  IF j <= Len(s) /\ CharAt(s, j) = "}"
                  THEN Parsed(JDict(<<>>, <<>>), j + 1)
                  ELSE ParseMembers(s, j, JDict(<<>>, <<>>))
         ELSE IF c = "["
         THEN LET j == SkipJsonSpace(s, i + 1)
              IN  IF j <= Len(s) /\ CharAt(s, j) = "]"
                  THEN Parsed(JList(<<>>), j + 1)
                  ELSE ParseItems(s, j, <<>>)
         ELSE IF c = "\"" THEN ParseString(s, i)
         ELSE IF c = "-" \/ IsDigit(c) THEN ParseInt(s, i)
         ELSE ParseLiteral(s, i)

\* json.loads(s): ok is FALSE where it raises json.JSONDecodeError
json_loads(s) ==
    LET r == ParseValue(s, SkipJsonSpace(s, 1))
    IN  IF r.ok /\ SkipJsonSpace(s, r.pos) = Len(s) + 1 THEN r ELSE ParseFail

(***************************************************************************)
(* extract_json_from_response.  A TLA+ string cannot hold the grave        *)
(* accent, so in every text of this model the apostrophe stands for it:    *)
(* Fence is the three-character code fence marker.                         *)
(***************************************************************************)
Tick == "'"
Fence == Tick \o Tick \o Tick

\* the characters the bracket scan looks at from start_idx on
ScanWindow == 50000
\* the characters of the original content the error carries
PreviewLen == 200

\* s[i-1:].startswith(p)
At(s, i, p) == i >= 1 /\ Slice(s, i, i + Len(p) - 1) = p
StartsWith(s, p) == At(s, 1, p)
EndsWith(s, p) == Len(s) >= Len(p) /\ SubSeq(s, Len(s) - Len(p) + 1, Len(s)) = p

Min(a, b) == IF a < b THEN a ELSE b

SetMin(S) == CHOOSE x \in S : \A y \in S : x <= y

RECURSIVE SkipSpace(_, _)
\* the index after the run of whitespace starting at i (a greedy \s*)
SkipSpace(s, i) ==
    IF i <= Len(s) /\ IsSpace(CharAt(s, i)) THEN SkipSpace(s, i + 1) ELSE i

\* a span of the content, or no match
NoSpan == [ok |-> FALSE, from |-> 0, to |-> 0]
Span(a, b) == [ok |-> TRUE, from |-> a, to |-> b]

\* Strategy 1: the stripped content without a leading and a trailing fence
StripFences(content) ==
    LET c0 == StrStrip(content)
        c1 == IF StartsWith(c0, Fence \o "json") THEN SubSeq(c0, 8, Len(c0))
              ELSE IF StartsWith(c0, Fence) THEN SubSeq(c0, 4, Len(c0))
              ELSE c0
        c2 == IF EndsWith(c1, Fence) THEN SubSeq(c1, 1, Len(c1) - 3) ELSE c1
    IN  StrStrip(c2)

\* the Strategy 3 pattern without the \s* after the fence
FenceGroupAt_NoSpace(s, i) ==
    IF ~At(s, i, Fence) THEN NoSpan
    ELSE LET k == IF At(s, i + 3, "json") THEN i + 7 ELSE i + 3
         IN  IF k > Len(s) \/ CharAt(s, k) \notin {"{", "["} THEN NoSpan
             ELSE LET close == IF CharAt(s, k) = "{" THEN "}" ELSE "]"
                      ends == { e \in (k + 1)..Len(s) :
                                  /\ CharAt(s, e) = close
                                  /\ At(s, SkipSpace(s, e + 1), Fence) }
                  IN  IF ends = {} THEN NoSpan ELSE Span(k, SetMin(ends))

\* group(1) of the Strategy 3 pattern matched at index i: the fence, an
\* optional json, whitespace, then lazily from the opening bracket to the
\* first closing bracket of the same kind that whitespace and a fence follow
FenceGroupAt(s, i) ==
    IF ~At(s, i, Fence) THEN NoSpan
    ELSE LET j == IF At(s, i + 3, "json") THEN i + 7 ELSE i + 3
             k == SkipSpace(s, j)
         IN  IF k > Len(s) \/ CharAt(s, k) \notin {"{", "["} THEN NoSpan
             ELSE LET close == IF CharAt(s, k) = "{" THEN "}" ELSE "]"
                      ends == { e \in (k + 1)..Len(s) :
                                  /\ CharAt(s, e) = close
                                  /\ At(s, SkipSpace(s, e + 1), Fence) }
                  IN  IF ends = {} THEN NoSpan ELSE Span(k, SetMin(ends))

\* re.search of the Strategy 3 pattern: the leftmost match
FenceSearch(s) ==
    LET starts == { i \in 1..Len(s) : FenceGroupAt(s, i).ok }
    IN  IF starts = {} THEN NoSpan ELSE FenceGroupAt(s, SetMin(starts))

\* the lookahead (?=\s*(?:\n\n|\n#|$|\{|\[)) at index p
Lookahead(s, p) ==
    \E w \in p..(Len(s) + 1) :
       /\ \A q \in p..(w - 1) : IsSpace(CharAt(s, q))
       /\ \/ At(s, w, "\n\n")
          \/ At(s, w, "\n#")
          \/ w = Len(s) + 1
          \/ w = Len(s) /\ CharAt(s, w) = "\n"
          \/ At(s, w, "{")
          \/ At(s, w, "[")

\* the match of a Strategy 4 pattern starting at index i
BracketGroupAt(s, i, open, close) ==
    IF CharAt(s, i) # open THEN NoSpan
    ELSE LET ends == { e \in (i + 1)..Len(s) :
                         CharAt(s, e) = close /\ Lookahead(s, e + 1) }
         IN  IF ends = {} THEN NoSpan ELSE Span(i, SetMin(ends))

\* re.search of a Strategy 4 pattern: the leftmost match
BracketSearch(s, open, close) ==
    LET starts == { i \in 1..Len(s) : BracketGroupAt(s, i, open, close).ok }
    IN  IF starts = {} THEN NoSpan
        ELSE BracketGroupAt(s, SetMin(starts), open, close)

RECURSIVE DepthScan(_, _, _, _)
\* Strategy 5's loop from index i with bracket_stack = depth: the index at
\* which the stack returns to 0, or 0 when the range ends first
DepthScan(s, i, last, depth) ==
    IF i > last THEN 0
    ELSE LET char == CharAt(s, i) IN
         IF char = "{" \/ char = "[" THEN DepthScan(s, i + 1, last, depth + 1)
         ELSE IF char = "}" \/ char = "]"
              THEN IF depth - 1 = 0 THEN i
                   ELSE DepthScan(s, i + 1, last, depth - 1)
         ELSE DepthScan(s, i + 1, last, depth)

\* Strategy 5 for one start_char: the span up to the balancing bracket
BalancedSpan(s, start_char) ==
    IF ~Contains(s, start_char) THEN NoSpan
    ELSE LET start_idx == SetMin({ i \in 1..Len(s) : CharAt(s, i) = start_char })
             last == Min(start_idx + ScanWindow - 1, Len(s))
             e == DepthScan(s, start_idx, last, 0)
         IN  IF e = 0 THEN NoSpan ELSE Span(start_idx, e)

\* json.loads of a matched span
LoadSpan(s, m) ==
    IF m.ok THEN json_loads(SubSeq(s, m.from, m.to)) ELSE ParseFail

\* the error carrying the whole content
ExtractionError_Whole(content_original) ==
    "No valid JSON found in response. Response starts with: "
       \o content_original

ExtractionError(content_original) ==
    "No valid JSON found in response. Response starts with: "
       \o Prefix(content_original, PreviewLen)

Returned(val) == [tag |-> "return", value |-> val, msg |-> ""]
Raised(msg) == [tag |-> "raise", value |-> JNull, msg |-> msg]

\* the first strategy whose candidate parses decides
extract_json_from_response(content) ==
    LET direct == json_loads(StripFences(content))
        fenced == LoadSpan(content, FenceSearch(content))
        object == LoadSpan(content, BracketSearch(content, "{", "}"))
        array == LoadSpan(content, BracketSearch(content, "[", "]"))
        scan_object == LoadSpan(content, BalancedSpan(content, "{"))
        scan_array == LoadSpan(content, BalancedSpan(content, "["))
    IN  IF direct.ok THEN Returned(direct.val)
        ELSE IF fenced.ok THEN Returned(fenced.val)
        ELSE IF object.ok THEN Returned(object.val)
        ELSE IF array.ok THEN Returned(array.val)
        ELSE IF scan_object.ok THEN Returned(scan_object.val)
        ELSE IF scan_array.ok THEN Returned(scan_array.val)
        ELSE Raised(ExtractionError(content))

(***************************************************************************)
(* The provider classes and the errors their generate() raises.  Each      *)
(* entry gives the class, the failure the provider met (origin), the       *)
(* response formats under which the raise is reachable and the text of the *)
(* raised Exception, with base_url = http://localhost:11434, model =       *)
(* llama3 and a concrete response body where the text embeds one.          *)
(***************************************************************************)
ProviderClasses ==
    {"OpenAIProvider", "OllamaProvider", "HuggingFaceProvider",
     "TogetherAIProvider", "GroqProvider", "ReplicateProvider",
     "GeminiProvider"}

OllamaTimeoutMsg ==
    "Request timed out after 300 seconds. Ollama may be slow or unresponsive. Check if Ollama is running at http://localhost:11434 and if the model 'llama3' is available."
OllamaConnectMsg ==
    "Cannot connect to Ollama at http://localhost:11434. Make sure Ollama is running (try 'ollama serve' or check your base_url setting)."
OllamaFormatMsg ==
    "Ollama model ignored JSON format instruction and returned markdown/tutorial instead. This is a retriable error. Response starts with: # Tutorial..."
OllamaInvalidJsonMsg ==
    "Invalid JSON response from Ollama: No valid JSON found in response. Response starts with: I cannot comply with that request."
OpenAIQuotaMsg ==
    "API quota exceeded. Please add credits to your OpenAI account."
OpenAITimeoutMsg ==
    "OpenAI API error: Request timed out."
OpenAIConnectMsg ==
    "OpenAI API error: Connection error."
HuggingFaceLoadingMsg ==
    "HuggingFace API error: HuggingFace API error: Model is currently loading"
TogetherServerMsg ==
    "Together AI API error: Together AI API error: Internal server error"
GroqRateLimitMsg ==
    "Groq API error: Groq API error: Rate limit reached, please try again later"
GroqTimeoutMsg ==
    "Groq API error: "
ReplicateTimeoutMsg ==
    "Replicate API error: Replicate prediction timeout"
GeminiAuthMsg ==
    "Gemini API error: Invalid Gemini API key. Please check your API key at https://aistudio.google.com/app/apikey"
GeminiQuotaMsg ==
    "Gemini API error: Gemini API quota exceeded. Please check your usage limits."
GeminiUnavailableMsg ==
    "Gemini API error: Gemini API is temporarily unavailable (503): The model is overloaded. This is usually temporary - please try again in a few moments or use a different provider."
GeminiSafetyMsg ==
    "Gemini API error: Gemini blocked the content due to safety filters. Please modify your prompt."

ProviderErrors ==
    { [cls |-> "OllamaProvider",    origin |-> "Timeout",                fmt |-> "any",  msg |-> OllamaTimeoutMsg],
      [cls |-> "OllamaProvider",    origin |-> "ConnectionFailed",       fmt |-> "any",  msg |-> OllamaConnectMsg],
      [cls |-> "OllamaProvider",    origin |-> "FormatViolation",        fmt |-> "json", msg |-> OllamaFormatMsg],
      [cls |-> "OllamaProvider",    origin |-> "ExtractionFailed",       fmt |-> "json", msg |-> OllamaInvalidJsonMsg],
      [cls |-> "OpenAIProvider",    origin |-> "QuotaExceeded",          fmt |-> "any",  msg |-> OpenAIQuotaMsg],
      [cls |-> "OpenAIProvider",    origin |-> "Timeout",                fmt |-> "any",  msg |-> OpenAITimeoutMsg],
      [cls |-> "OpenAIProvider",    origin |-> "ConnectionFailed",       fmt |-> "any",  msg |-> OpenAIConnectMsg],
      [cls |-> "HuggingFaceProvider", origin |-> "TemporarilyUnavailable", fmt |-> "any", msg |-> HuggingFaceLoadingMsg],
      [cls |-> "TogetherAIProvider", origin |-> "TemporarilyUnavailable", fmt |-> "any", msg |-> TogetherServerMsg],
      [cls |-> "GroqProvider",      origin |-> "RateLimited",            fmt |-> "any",  msg |-> GroqRateLimitMsg],
      [cls |-> "GroqProvider",      origin |-> "Timeout",                fmt |-> "any",  msg |-> GroqTimeoutMsg],
      [cls |-> "ReplicateProvider", origin |-> "Timeout",                fmt |-> "any",  msg |-> ReplicateTimeoutMsg],
      [cls |-> "GeminiProvider",    origin |-> "AuthInvalid",            fmt |-> "any",  msg |-> GeminiAuthMsg],
      [cls |-> "GeminiProvider",    origin |-> "QuotaExceeded",          fmt |-> "any",  msg |-> GeminiQuotaMsg],
      [cls |-> "GeminiProvider",    origin |-> "TemporarilyUnavailable", fmt |-> "any",  msg |-> GeminiUnavailableMsg],
      [cls |-> "GeminiProvider",    origin |-> "Unknown",                fmt |-> "any",  msg |-> GeminiSafetyMsg] }

\* the errors generate() of class cls can raise for a response_format
ErrorsOf(cls, response_format) ==
    { e \in ProviderErrors :
        e.cls = cls /\ (e.fmt = "any" \/ e.fmt = response_format) }

\* the values generate() can return: the content for "text", the parsed
\* value for "json" ({} when the provider could not parse the content)
PayloadsOf(response_format) ==
    IF response_format = "json"
    THEN { [title |-> "Intro"], EmptyDict }
    ELSE { "Hello" }

(***************************************************************************)
(* State.  call_llm: its arguments, its loop variable, its position, the   *)
(* sleeps and generate() calls it has made and how it ended.               *)
(***************************************************************************)
VARIABLES
    provider,         \* class of the provider instance given to call_llm
    response_format,  \* "text" or "json"
    max_retries,      \* attempt budget of call_llm
    retry_delay,      \* base delay of call_llm, in seconds
    attempt,          \* loop variable of call_llm (0-based)
    last_exception,   \* message of the last exception caught, or None
    pc,               \* "loop", "generate" or "done"
    history,          \* the sleeps and generate() calls made so far, in order
    result,           \* how call_llm ended: returned value or raised message
    \* call_llm_with_fallback
    user_settings,       \* the UserSettings row
    fb_format,           \* its response_format argument
    fb_max_retries,      \* its max_retries argument (providers to try)
    available_providers, \* result of get_available_providers
    idx,                 \* loop index over available_providers[:max_retries]
    errors,              \* the list of (provider_type, error_msg)
    fb_pc,               \* "start", "select", "generate" or "done"
    fb_trace,            \* providers constructed and invoked so far, in order
    fb_result,           \* how the call ended
    \* get_available_providers called on its own
    gap_settings,        \* its user_settings argument
    gap_exclude,         \* its exclude_provider argument
    gap_results,         \* the lists returned by successive calls
    \* extract_json_from_response
    ex_before,           \* the prose before the JSON text
    ex_body,             \* the text between the prose
    ex_wrap,             \* how the body is fenced
    ex_after,            \* the prose after it
    content,             \* the content argument
    ex_pc,
    ex_result,           \* the value returned or the Exception raised
    \* provider.generate() from the backend's answer on
    gen_cls,             \* the provider class
    gen_format,          \* response_format
    gen_status,          \* the HTTP status of the backend's answer
    gen_content,         \* the text of the backend's answer (content or body)
    gen_pc,
    gen_result,          \* the value returned or the Exception raised
    \* ReplicateProvider.generate: submit, then poll
    rep_format,          \* response_format
    rep_pc,              \* "submit", "sleep", "poll" or "done"
    rep_sleeps,          \* asyncio.sleep(1) calls made
    rep_polls,           \* status polls issued
    rep_last,            \* the status the last poll reported
    rep_terminal,        \* polls that reported succeeded or failed
    rep_result,          \* the value returned or the Exception raised
    \* concurrent call_llm calls on one event loop
    loop_cls,            \* task -> class of its provider
    loop_pc,             \* task -> "ready", "in_flight", "sleeping", "done"
    loop_attempt,        \* task -> attempts started
    loop_blocked,        \* the task whose synchronous call holds the loop, or 0
    \* generate_tutorial: one job
    job_user,            \* the User record exists
    job_settings,        \* the UserSettings record exists
    job_has_key,         \* the settings hold a key for the primary provider
    job_provider_ok,     \* create_llm_provider knows the primary kind
    job_generation,      \* the TutorialGeneration record exists
    job_repo,            \* the Repository record exists
    job_clone_ok,        \* git clone succeeds
    job_llm_ok,          \* every call_llm returns well-formed JSON
    job_outline,         \* modules of the outline call_llm returns
    job_pc,              \* position of the job
    job_index,           \* index of the module loop
    generation_status,   \* generation.status
    generation_progress, \* generation.generation_progress
    job_result           \* "status" of the dict returned

llmVars == <<provider, response_format, max_retries, retry_delay, attempt,
             last_exception, pc, history, result>>

fbVars == <<user_settings, fb_format, fb_max_retries, available_providers,
            idx, errors, fb_pc, fb_trace, fb_result>>

gapVars == <<gap_settings, gap_exclude, gap_results>>

exVars == <<ex_before, ex_body, ex_wrap, ex_after, content, ex_pc, ex_result>>

genVars == <<gen_cls, gen_format, gen_status, gen_content, gen_pc, gen_result>>

repVars == <<rep_format, rep_pc, rep_sleeps, rep_polls, rep_last,
            rep_terminal, rep_result>>

\* the provider-internal and job-level state
loopVars == <<loop_cls, loop_pc, loop_attempt, loop_blocked>>

jobInputs == <<job_user, job_settings, job_has_key, job_provider_ok,
               job_generation, job_repo, job_clone_ok, job_llm_ok,
               job_outline>>

jobVars == <<jobInputs, job_pc, job_index, generation_status,
             generation_progress, job_result>>

restVars == <<repVars, loopVars, jobVars>>

vars == <<llmVars, fbVars, gapVars, exVars, genVars, restVars>>

\* what a step of each function leaves alone
notLlm == <<fbVars, gapVars, exVars, genVars, restVars>>
notFb == <<llmVars, gapVars, exVars, genVars, restVars>>
notGap == <<llmVars, fbVars, exVars, genVars, restVars>>
notEx == <<llmVars, fbVars, gapVars, genVars, restVars>>
notGen == <<llmVars, fbVars, gapVars, exVars, restVars>>
coreVars == <<llmVars, fbVars, gapVars, exVars, genVars>>
notRep == <<coreVars, loopVars, jobVars>>
notLoop == <<coreVars, repVars, jobVars>>
notJob == <<coreVars, repVars, loopVars>>

NoResult == [tag |-> "none", value |-> None]

(***************************************************************************)
(* call_llm: the classification of a caught exception by its message.      *)
(***************************************************************************)
\* "timed out" / "timeout" patterns of is_retriable
IsTimeoutText(error_message) ==
    LET low == StrLower(error_message) IN
    Contains(low, "timed out") \/ Contains(low, "timeout")

\* 503 / 502 / unavailable / server error / try again later patterns
IsUnavailableText(error_message) ==
    LET low == StrLower(error_message) IN
    \/ Contains(error_message, "503")
    \/ Contains(error_message, "502")
    \/ Contains(low, "temporarily unavailable")
    \/ Contains(low, "unavailable")
    \/ Contains(low, "server error")
    \/ Contains(low, "try again later")

\* format-error patterns of is_retriable
IsFormatText(error_message) ==
    LET low == StrLower(error_message) IN
    \/ Contains(low, "ignored json format instruction")
    \/ Contains(low, "retriable error")

is_retriable(error_message) ==
    \/ IsTimeoutText(error_message)
    \/ IsUnavailableText(error_message)
    \/ IsFormatText(error_message)

\* is_quota_error without the "rate limit" test
is_quota_error_NoRateLimit(error_message) ==
    LET low == StrLower(error_message) IN
    \/ Contains(low, "quota")
    \/ Contains(error_message, "429")
    \/ Contains(low, "insufficient_quota")

is_quota_error(error_message) ==
    LET low == StrLower(error_message) IN
    \/ Contains(low, "quota")
    \/ Contains(error_message, "429")
    \/ Contains(low, "insufficient_quota")
    \/ Contains(low, "rate limit")

\* Python: a or b or (c and d)
is_auth_error(error_message) ==
    LET low == StrLower(error_message) IN
    \/ Contains(low, "api key not valid")
    \/ Contains(low, "api_key_invalid")
    \/ (Contains(low, "invalid") /\ Contains(low, "api key"))

\* The class under which the except-branch handles a message: the quota
\* test comes first, then the auth test, then the retriable test.
Kind(error_message) ==
    IF is_quota_error(error_message) THEN "QuotaExceeded"
    ELSE IF is_auth_error(error_message) THEN "AuthInvalid"
    ELSE IF IsTimeoutText(error_message) THEN "Timeout"
    ELSE IF IsUnavailableText(error_message) THEN "TemporarilyUnavailable"
    ELSE IF IsFormatText(error_message) THEN "FormatViolation"
    ELSE "Unknown"

FatalKinds == {"QuotaExceeded", "AuthInvalid"}
RetriableKinds == {"Timeout", "TemporarilyUnavailable", "FormatViolation"}

\* provider.__class__.__name__.replace("Provider", "").upper()
provider_name(cls) == StrUpper(StrReplace(cls, "Provider", ""))

\* the delay with the exponent off by one
BackoffDelay_OffByOne(delay0, att) == delay0 * (2 ^ att)

\* delay = retry_delay * (2 ** (attempt - 1)), for attempt > 0
BackoffDelay(delay0, att) == delay0 * (2 ^ (att - 1))

\* the except-branch with the retriable test ahead of the quota and auth tests
OnException_RetriableFirst(error_message, att, budget, fmt, cls) ==
    IF is_retriable(error_message) /\ att < budget - 1
    THEN [act |-> "continue", value |-> None]
    ELSE IF is_quota_error(error_message)
    THEN IF fmt = "json"
         THEN [act |-> "return", value |-> EmptyDict]
         ELSE [act |-> "raise",
               value |-> "API quota exceeded for " \o provider_name(cls) \o "."]
    ELSE [act |-> "raise", value |-> error_message]

\* the except-branch giving up one attempt early
OnException_ShortBudget(error_message, att, budget, fmt, cls) ==
    IF is_quota_error(error_message)
    THEN IF fmt = "json"
         THEN [act |-> "return", value |-> EmptyDict]
         ELSE [act |-> "raise",
               value |-> "API quota exceeded for " \o provider_name(cls) \o "."]
    ELSE IF is_auth_error(error_message)
    THEN [act |-> "raise", value |-> error_message]
    ELSE IF is_retriable(error_message) /\ att < budget - 2
    THEN [act |-> "continue", value |-> None]
    ELSE [act |-> "raise", value |-> error_message]

\* the except-branch retrying every error that is not quota or auth
OnException_RetryAny(error_message, att, budget, fmt, cls) ==
    IF is_quota_error(error_message)
    THEN IF fmt = "json"
         THEN [act |-> "return", value |-> EmptyDict]
         ELSE [act |-> "raise",
               value |-> "API quota exceeded for " \o provider_name(cls) \o "."]
    ELSE IF is_auth_error(error_message)
    THEN [act |-> "raise", value |-> error_message]
    ELSE IF att < budget - 1
    THEN [act |-> "continue", value |-> None]
    ELSE [act |-> "raise", value |-> error_message]

\* The except-branch of call_llm: what the handler does with the exception
\* caught on (0-based) attempt att.
OnException(error_message, att, budget, fmt, cls) ==
    IF is_quota_error(error_message)
    THEN IF fmt = "json"
         THEN [act |-> "return", value |-> EmptyDict]
         ELSE [act |-> "raise",
               value |-> "API quota exceeded for " \o provider_name(cls) \o "."]
    ELSE IF is_auth_error(error_message)
    THEN [act |-> "raise", value |-> error_message]
    ELSE IF is_retriable(error_message) /\ att < budget - 1
    THEN [act |-> "continue", value |-> None]
    ELSE IF ~is_retriable(error_message)
    THEN [act |-> "raise", value |-> error_message]
    ELSE [act |-> "raise", value |-> error_message]

(***************************************************************************)
(* call_llm: the steps.                                                    *)
(***************************************************************************)
\* Every caller of call_llm (generate_tutorial, call_gpt4) leaves max_retries
\* at its default 3, so the loop body runs at least once; the statements
\* after the loop ("Should never reach here") are not reached.
CallLlmInit ==
    /\ provider \in ProviderClasses
    /\ response_format \in {"text", "json"}
    /\ max_retries \in 1..MaxAttempts
    /\ retry_delay \in 1..MaxDelay
    /\ attempt = 0
    /\ last_exception = None
    /\ pc = "loop"
    /\ history = <<>>
    /\ result = NoResult

\* first iteration: attempt = 0, no sleep
FirstAttempt ==
    /\ pc = "loop"
    /\ attempt = 0
    /\ pc' = "generate"
    /\ UNCHANGED <<provider, response_format, max_retries, retry_delay,
                   attempt, last_exception, history, result>>
    /\ UNCHANGED notLlm

\* later iterations: await asyncio.sleep(delay) before generate()
Backoff ==
    /\ pc = "loop"
    /\ attempt > 0
    /\ history' = Append(history,
                         [op |-> "sleep", n |-> attempt + 1,
                          val |-> BackoffDelay(retry_delay, attempt),
                          origin |-> None])
    /\ pc' = "generate"
    /\ UNCHANGED <<provider, response_format, max_retries, retry_delay,
                   attempt, last_exception, result>>
    /\ UNCHANGED notLlm

\* provider.generate() returns: call_llm returns the response
GenerateReturns ==
    /\ pc = "generate"
    /\ \E payload \in PayloadsOf(response_format) :
         /\ history' = Append(history,
                              [op |-> "ok", n |-> attempt + 1,
                               val |-> payload, origin |-> None])
         /\ result' = [tag |-> "return", value |-> payload]
    /\ pc' = "done"
    /\ UNCHANGED <<provider, response_format, max_retries, retry_delay,
                   attempt, last_exception>>
    /\ UNCHANGED notLlm

\* provider.generate() raises: the except-branch decides
GenerateRaises ==
    /\ pc = "generate"
    /\ \E e \in ErrorsOf(provider, response_format) :
         LET h == OnException(e.msg, attempt, max_retries, response_format,
                              provider) IN
         /\ history' = Append(history,
                              [op |-> "error", n |-> attempt + 1,
                               val |-> e.msg, origin |-> e.origin])
         /\ last_exception' = e.msg
         /\ IF h.act = "continue"
            THEN /\ attempt' = attempt + 1
                 /\ pc' = "loop"
                 /\ UNCHANGED result
            ELSE /\ result' = [tag |-> h.act, value |-> h.value]
                 /\ pc' = "done"
                 /\ UNCHANGED attempt
    /\ UNCHANGED <<provider, response_format, max_retries, retry_delay>>
    /\ UNCHANGED notLlm


\* "except Exception" before Python 3.8, where asyncio.CancelledError was an
\* Exception
ExceptExceptionCatches_Py37(cls) == cls \in {"Exception", "CancelledError"}

\* "except Exception as e": asyncio.CancelledError derives from BaseException
\* (the code needs Python 3.9 or later), every error of a provider is a plain
\* Exception
ExceptExceptionCatches(cls) == cls = "Exception"

\* the caller's task is cancelled while call_llm awaits asyncio.sleep(delay)
\* or provider.generate(): CancelledError is raised at the await, inside the
\* try of the loop body
CancelCallLlm ==
    /\ pc = "generate" \/ (pc = "loop" /\ attempt > 0)
    /\ history' = Append(history,
                         [op |-> "cancel", n |-> attempt + 1,
                          val |-> IF pc = "generate" THEN "generate"
                                  ELSE "sleep",
                          origin |-> None])
    /\ IF ExceptExceptionCatches("CancelledError")
       THEN LET h == OnException("", attempt, max_retries, response_format,
                                 provider) IN
            /\ last_exception' = ""
            /\ IF h.act = "continue"
               THEN /\ attempt' = attempt + 1
                    /\ pc' = "loop"
                    /\ UNCHANGED result
               ELSE /\ result' = [tag |-> h.act, value |-> h.value]
                    /\ pc' = "done"
                    /\ UNCHANGED attempt
       ELSE /\ pc' = "cancelled"
            /\ result' = [tag |-> "cancelled", value |-> None]
            /\ UNCHANGED <<attempt, last_exception>>
    /\ UNCHANGED <<provider, response_format, max_retries, retry_delay>>
    /\ UNCHANGED notLlm

(***************************************************************************)
(* llm_fallback.py and the provider factory.                               *)
(***************************************************************************)
\* Python truthiness of an Optional[str]: "not x"
Falsy(x) == x = None \/ x = ""

\* x or default
OrElse(x, default) == IF Falsy(x) THEN default ELSE x


\* The UserSettings rows of the model.  llm_provider_keys is a dict: its
\* items(), in insertion order, as a sequence of <<key, value>>.
NoSettings ==
    [llm_provider |-> None, llm_api_key |-> None, openai_api_key |-> None,
     llm_model |-> None, llm_base_url |-> None, llm_provider_keys |-> <<>>]

SettingsChoices ==
    { \* nothing configured
      NoSettings,
      \* legacy OpenAI key only
      [NoSettings EXCEPT !.openai_api_key = "sk-legacy"],
      \* primary plus three additional credentials
      [NoSettings EXCEPT !.llm_provider = "openai", !.llm_api_key = "sk-a",
                         !.llm_model = "gpt-4o",
                         !.llm_provider_keys =
                            << <<"groq", "gk">>, <<"gemini", "gm">>,
                               <<"ollama", "">> >>],
      \* local primary, keys stored with other case, blanks, unknown kind
      [NoSettings EXCEPT !.llm_provider = "ollama",
                         !.llm_base_url = "http://localhost:11434",
                         !.llm_provider_keys =
                            << <<"Groq", " gk ">>, <<"replicate", "  ">>,
                               <<"mistral", "mk">> >>],
      \* the primary kind again among the additional keys
      [NoSettings EXCEPT !.llm_provider = "gemini", !.llm_api_key = "gm",
                         !.llm_provider_keys =
                            << <<"gemini", "gm2">>, <<"openai", "sk-b">> >>],
      \* the key of the primary kind stored among the additional keys only
      [NoSettings EXCEPT !.llm_provider = "groq",
                         !.llm_provider_keys =
                            << <<"groq", "gk">>, <<"openai", "sk-b">> >>],
      \* a primary of a kind the factory does not know
      [NoSettings EXCEPT !.llm_provider = "mistral", !.llm_api_key = "mk",
                         !.llm_provider_keys = << <<"groq", "gk">> >>],
      \* a primary key of blanks
      [NoSettings EXCEPT !.llm_provider = "groq", !.llm_api_key = " ",
                         !.llm_provider_keys = << <<"together", "tk">> >>] }

\* the values of exclude_provider
ExcludeChoices == {None, "openai", "ollama", "groq", "Groq", "gemini", "mistral"}

RECURSIVE KeysEntries(_, _, _)
\* the loop over provider_keys.items()
KeysEntries(items, exclude_provider, base_url) ==
    IF items = <<>> THEN <<>>
    ELSE LET provider_type == Head(items)[1]
             api_key == Head(items)[2]
             rest == KeysEntries(Tail(items), exclude_provider, base_url)
         IN  IF provider_type = exclude_provider THEN rest
             ELSE IF StrLower(provider_type) = "ollama"
             THEN << [provider_type |-> StrLower(provider_type),
                      api_key |-> None, model |-> None,
                      base_url |-> base_url] >> \o rest
             ELSE IF ~Falsy(api_key) /\ ~Falsy(StrStrip(api_key))
             THEN << [provider_type |-> StrLower(provider_type),
                      api_key |-> StrStrip(api_key), model |-> None,
                      base_url |-> None] >> \o rest
             ELSE rest

\* the primary entry appended after the additional ones
get_available_providers_PrimaryLast(settings, exclude_provider) ==
    LET primary_provider == OrElse(settings.llm_provider, "openai")
        primary_key ==
            IF Falsy(settings.llm_api_key) /\ primary_provider = "openai"
            THEN settings.openai_api_key
            ELSE settings.llm_api_key
        primary ==
            IF exclude_provider # primary_provider
               /\ (primary_provider = "ollama" \/ ~Falsy(primary_key))
            THEN << [provider_type |-> primary_provider,
                     api_key |-> primary_key,
                     model |-> settings.llm_model,
                     base_url |-> settings.llm_base_url] >>
            ELSE <<>>
    IN  KeysEntries(settings.llm_provider_keys, exclude_provider,
                    settings.llm_base_url) \o primary

\* additional entries of the primary kind left out
get_available_providers_Dedup(settings, exclude_provider) ==
    LET primary_provider == OrElse(settings.llm_provider, "openai")
        primary_key ==
            IF Falsy(settings.llm_api_key) /\ primary_provider = "openai"
            THEN settings.openai_api_key
            ELSE settings.llm_api_key
        primary ==
            IF exclude_provider # primary_provider
               /\ (primary_provider = "ollama" \/ ~Falsy(primary_key))
            THEN << [provider_type |-> primary_provider,
                     api_key |-> primary_key,
                     model |-> settings.llm_model,
                     base_url |-> settings.llm_base_url] >>
            ELSE <<>>
    IN  primary \o SelectSeq(KeysEntries(settings.llm_provider_keys,
                                         exclude_provider,
                                         settings.llm_base_url),
                             LAMBDA e : primary = <<>>
                                        \/ e.provider_type # primary_provider)

get_available_providers(settings, exclude_provider) ==
    LET primary_provider == OrElse(settings.llm_provider, "openai")
        primary_key ==
            IF Falsy(settings.llm_api_key) /\ primary_provider = "openai"
            THEN settings.openai_api_key
            ELSE settings.llm_api_key
        primary ==
            IF exclude_provider # primary_provider
               /\ (primary_provider = "ollama" \/ ~Falsy(primary_key))
            THEN << [provider_type |-> primary_provider,
                     api_key |-> primary_key,
                     model |-> settings.llm_model,
                     base_url |-> settings.llm_base_url] >>
            ELSE <<>>
    IN  primary \o KeysEntries(settings.llm_provider_keys, exclude_provider,
                               settings.llm_base_url)

\* create_llm_provider: the class constructed, or the ValueError raised
create_llm_provider(provider_type, api_key) ==
    LET t == StrLower(provider_type)
        Made(cls) == [ok |-> TRUE, cls |-> cls, msg |-> None]
        Needs(label, cls) ==
            IF Falsy(api_key)
            THEN [ok |-> FALSE, cls |-> None,
                  msg |-> label \o " requires an API key"]
            ELSE Made(cls)
    IN  CASE t = "openai"      -> Needs("OpenAI", "OpenAIProvider")
          [] t = "ollama"      -> Made("OllamaProvider")
          [] t = "huggingface" -> Needs("HuggingFace", "HuggingFaceProvider")
          [] t = "together"    -> Needs("Together AI", "TogetherAIProvider")
          [] t = "groq"        -> Needs("Groq", "GroqProvider")
          [] t = "replicate"   -> Needs("Replicate", "ReplicateProvider")
          [] t = "gemini"      -> Needs("Gemini", "GeminiProvider")
          [] OTHER             -> [ok |-> FALSE, cls |-> None,
                                   msg |-> "Unknown provider type: " \o t]

\* the slice left out: the whole list is tried
Candidates_WholeList(available, n) == available

\* available_providers[:max_retries]
Candidates(available, n) == SubSeq(available, 1, Min(n, Len(available)))

\* the except-branch without errors.append
AfterFailure_NotLogged(i, errs, provider_type, error_msg) ==
    [idx |-> i + 1, errors |-> errs]

\* the except-branch trying the same provider again after a retriable error
AfterFailure_RetrySame(i, errs, provider_type, error_msg) ==
    [idx |-> IF Kind(error_msg) \in RetriableKinds /\ Len(errs) < 2
             THEN i ELSE i + 1,
     errors |-> Append(errs, <<provider_type, error_msg>>)]

\* the except-branch of the loop: record the failure, go to the next provider
AfterFailure(i, errs, provider_type, error_msg) ==
    [idx |-> i + 1, errors |-> Append(errs, <<provider_type, error_msg>>)]

\* the entry without the cut to 50 characters
SummaryEntry_Untruncated(err) == err[1] \o ": " \o err[2]

\* f"{p}: {e[:50]}"
SummaryEntry(err) == err[1] \o ": " \o Prefix(err[2], 50)

RECURSIVE JoinEntries(_)
\* "; ".join([f"{p}: {e[:50]}" for p, e in errors])
JoinEntries(errs) ==
    IF errs = <<>> THEN ""
    ELSE IF Len(errs) = 1 THEN SummaryEntry(errs[1])
    ELSE SummaryEntry(errs[1]) \o "; " \o JoinEntries(Tail(errs))

\* the aggregate raised when the loop ends without a success
AggregateMessage(errs) ==
    "All LLM providers failed. Errors: " \o JoinEntries(errs)
        \o ". Please check your API keys and quotas."

NoProvidersMessage ==
    "No LLM providers configured. Please add at least one API key."

(***************************************************************************)
(* call_llm_with_fallback: the steps.                                      *)
(***************************************************************************)
FallbackInit ==
    /\ user_settings \in SettingsChoices
    /\ fb_format \in {"text", "json"}
    /\ fb_max_retries \in 0..MaxProviders
    /\ available_providers = <<>>
    /\ idx = 0
    /\ errors = <<>>
    /\ fb_pc = "start"
    /\ fb_trace = <<>>
    /\ fb_result = NoResult

\* the start without the empty-list check
FbStart_NoEmptyCheck ==
    /\ fb_pc = "start"
    /\ available_providers' = get_available_providers(user_settings, None)
    /\ fb_pc' = "select"
    /\ UNCHANGED <<user_settings, fb_format, fb_max_retries, idx, errors,
                   fb_trace, fb_result>>
    /\ UNCHANGED notFb

\* get_available_providers and the empty-list check
FbStart ==
    /\ fb_pc = "start"
    /\ available_providers' = get_available_providers(user_settings, None)
    /\ IF available_providers' = <<>>
       THEN /\ fb_result' = [tag |-> "raise", value |-> NoProvidersMessage]
            /\ fb_pc' = "done"
       ELSE /\ fb_pc' = "select"
            /\ UNCHANGED fb_result
    /\ UNCHANGED <<user_settings, fb_format, fb_max_retries, idx, errors,
                   fb_trace>>
    /\ UNCHANGED notFb

\* create_llm_provider called outside the try: its ValueError ends the call
FbCreate_Outside ==
    /\ fb_pc = "select"
    /\ idx < Len(Candidates(available_providers, fb_max_retries))
    /\ LET entry == available_providers[idx + 1]
           made == create_llm_provider(entry.provider_type, entry.api_key)
       IN  /\ fb_trace' = Append(fb_trace,
                                 [op |-> "create", pos |-> idx + 1,
                                  cls |-> made.cls, ok |-> made.ok,
                                  res |-> made.msg])
           /\ IF made.ok
              THEN /\ fb_pc' = "generate"
                   /\ UNCHANGED fb_result
              ELSE /\ fb_pc' = "done"
                   /\ fb_result' = [tag |-> "raise", value |-> made.msg]
    /\ UNCHANGED <<user_settings, fb_format, fb_max_retries,
                   available_providers, idx, errors>>
    /\ UNCHANGED notFb

\* loop head: create_llm_provider for the entry at idx
FbCreate ==
    /\ fb_pc = "select"
    /\ idx < Len(Candidates(available_providers, fb_max_retries))
    /\ LET entry == available_providers[idx + 1]
           made == create_llm_provider(entry.provider_type, entry.api_key)
           next == AfterFailure(idx, errors, entry.provider_type, made.msg)
       IN  /\ fb_trace' = Append(fb_trace,
                                 [op |-> "create", pos |-> idx + 1,
                                  cls |-> made.cls, ok |-> made.ok,
                                  res |-> made.msg])
           /\ IF made.ok
              THEN /\ fb_pc' = "generate"
                   /\ UNCHANGED <<idx, errors>>
              ELSE /\ idx' = next.idx
                   /\ errors' = next.errors
                   /\ UNCHANGED fb_pc
    /\ UNCHANGED <<user_settings, fb_format, fb_max_retries,
                   available_providers, fb_result>>
    /\ UNCHANGED notFb

\* the class of the provider instance made for the entry at idx
CurrentClass ==
    create_llm_provider(available_providers[idx + 1].provider_type,
                        available_providers[idx + 1].api_key).cls

\* await provider.generate(...) returns: return response, provider_type
FbGenerateReturns ==
    /\ fb_pc = "generate"
    /\ \E payload \in PayloadsOf(fb_format) :
         /\ fb_result' =
                [tag |-> "return",
                 value |-> <<payload,
                             available_providers[idx + 1].provider_type>>]
         /\ fb_trace' = Append(fb_trace,
                               [op |-> "generate", pos |-> idx + 1,
                                cls |-> CurrentClass, ok |-> TRUE,
                                res |-> payload])
    /\ fb_pc' = "done"
    /\ UNCHANGED <<user_settings, fb_format, fb_max_retries,
                   available_providers, idx, errors>>
    /\ UNCHANGED notFb

\* await provider.generate(...) raises: log it, continue with the next
FbGenerateRaises ==
    /\ fb_pc = "generate"
    /\ \E e \in ErrorsOf(CurrentClass, fb_format) :
         LET next == AfterFailure(idx, errors,
                                  available_providers[idx + 1].provider_type,
                                  e.msg)
         IN  /\ idx' = next.idx
             /\ errors' = next.errors
             /\ fb_trace' = Append(fb_trace,
                                   [op |-> "generate", pos |-> idx + 1,
                                    cls |-> CurrentClass, ok |-> FALSE,
                                    res |-> e.msg])
    /\ fb_pc' = "select"
    /\ UNCHANGED <<user_settings, fb_format, fb_max_retries,
                   available_providers, fb_result>>
    /\ UNCHANGED notFb

\* the caller's task is cancelled while call_llm_with_fallback awaits
\* provider.generate(): CancelledError is raised at the await, inside the try
CancelFallback ==
    /\ fb_pc = "generate"
    /\ fb_trace' = Append(fb_trace,
                          [op |-> "cancel", pos |-> idx + 1,
                           cls |-> CurrentClass, ok |-> FALSE, res |-> ""])
    /\ IF ExceptExceptionCatches("CancelledError")
       THEN LET next == AfterFailure(idx, errors,
                                     available_providers[idx + 1].provider_type,
                                     "")
            IN  /\ idx' = next.idx
                /\ errors' = next.errors
                /\ fb_pc' = "select"
                /\ UNCHANGED fb_result
       ELSE /\ fb_pc' = "cancelled"
            /\ fb_result' = [tag |-> "cancelled", value |-> None]
            /\ UNCHANGED <<idx, errors>>
    /\ UNCHANGED <<user_settings, fb_format, fb_max_retries,
                   available_providers>>
    /\ UNCHANGED notFb

\* the end of the loop without the raise: the function returns None
FbExhausted_ReturnsNone ==
    /\ fb_pc = "select"
    /\ idx >= Len(Candidates(available_providers, fb_max_retries))
    /\ fb_result' = [tag |-> "return", value |-> None]
    /\ fb_pc' = "done"
    /\ UNCHANGED <<user_settings, fb_format, fb_max_retries,
                   available_providers, idx, errors, fb_trace>>
    /\ UNCHANGED notFb

\* the loop is over: raise the aggregate
FbExhausted ==
    /\ fb_pc = "select"
    /\ idx >= Len(Candidates(available_providers, fb_max_retries))
    /\ fb_result' = [tag |-> "raise", value |-> AggregateMessage(errors)]
    /\ fb_pc' = "done"
    /\ UNCHANGED <<user_settings, fb_format, fb_max_retries,
                   available_providers, idx, errors, fb_trace>>
    /\ UNCHANGED notFb

(***************************************************************************)
(* get_available_providers called on its own, with exclude_provider.       *)
(***************************************************************************)
GapInit ==
    /\ gap_settings \in SettingsChoices
    /\ gap_exclude \in ExcludeChoices
    /\ gap_results = <<>>

GapIdle ==
    /\ gap_settings = NoSettings
    /\ gap_exclude = None
    /\ gap_results = <<>>

\* one call: the returned list
GapCall ==
    /\ Len(gap_results) < MaxCalls
    /\ gap_results' = Append(gap_results,
                             get_available_providers(gap_settings, gap_exclude))
    /\ UNCHANGED <<gap_settings, gap_exclude>>
    /\ UNCHANGED notGap

(***************************************************************************)
(* extract_json_from_response on the text of an LLM response: prose, then  *)
(* a body that is fenced or bare, then prose.                              *)
(***************************************************************************)
LongProse ==
    "The model could not produce the requested tutorial outline because the repository is empty. "
    \o "The model could not produce the requested tutorial outline because the repository is empty. "
    \o "The model could not produce the requested outline."

Befores == {"", "Here is the answer: ", "Use {x} like this:\n", "  \n"}
Afters == {"", " Thanks!", "\n\nDone [ok]", "\n"}
Bodies ==
    {"{\"x\": [1,2,3]}", "[{\"a\": 1}]", "{\"a\": {\"b\": 1}}", "[1, 2]",
     "[{\"a\": 1}, {\"b\": [2]}]", "{\"k\": \"}\"}", "{}",
     "42", "\"hi\"", "true",
     "{\"a\": 1", "no json here", "", LongProse}
Wraps == {"bare", "json", "plain", "tight"}

\* the body as the response carries it
Wrap(wrap, body) ==
    CASE wrap = "bare" -> body
      [] wrap = "json" -> Fence \o "json\n" \o body \o "\n" \o Fence
      [] wrap = "plain" -> Fence \o "\n" \o body \o "\n" \o Fence
      [] wrap = "tight" -> Fence \o "json" \o body \o Fence

NoExtraction == [tag |-> "none", value |-> JNull, msg |-> ""]

ExtractInit ==
    /\ ex_before \in Befores
    /\ ex_body \in Bodies
    /\ ex_wrap \in Wraps
    /\ ex_after \in Afters
    /\ content = ex_before \o Wrap(ex_wrap, ex_body) \o ex_after
    /\ ex_pc = "call"
    /\ ex_result = NoExtraction

ExtractIdle ==
    /\ ex_before = ""
    /\ ex_body = ""
    /\ ex_wrap = "bare"
    /\ ex_after = ""
    /\ content = ""
    /\ ex_pc = "idle"
    /\ ex_result = NoExtraction

\* the whole call
Extract ==
    /\ ex_pc = "call"
    /\ ex_result' = extract_json_from_response(content)
    /\ ex_pc' = "done"
    /\ UNCHANGED <<ex_before, ex_body, ex_wrap, ex_after, content>>
    /\ UNCHANGED notEx

(***************************************************************************)
(* provider.generate() once the backend has answered with status 200: what *)
(* each provider class makes of the text of the answer.                    *)
(***************************************************************************)
ResponseTexts ==
    {"{\"title\": \"Intro\"}", "[1, 2]", "{}",
     Fence \o "json\n{\"title\": \"Intro\"}\n" \o Fence,
     "Here is the answer: {\"x\": [1,2,3]} Thanks!",
     "{\"title\": \"Int", "no json here", "# Tutorial\nStep 1",
     "# Tutorial: handling API quota errors", ""}

\* is_markdown_tutorial of OllamaProvider.generate
is_markdown_tutorial(text) ==
    LET content_lower == StrLower(text) IN
    \/ StartsWith(content_lower, "#")
    \/ Contains(Prefix(content_lower, 500), "html")
    \/ Contains(Prefix(content_lower, 500), "doctype")
    \/ /\ Contains(Prefix(content_lower, 100), "tutorial")
       /\ ~Contains(Prefix(content_lower, 500), "json")

\* OllamaProvider: the extraction engine; its failure is raised
OllamaParse(text) ==
    LET r == extract_json_from_response(text) IN
    IF r.tag = "return" THEN r
    ELSE IF is_markdown_tutorial(text)
    THEN Raised("Ollama model ignored JSON format instruction and returned markdown/tutorial instead. This is a retriable error. Response starts with: "
                \o Prefix(text, 200) \o "...")
    ELSE Raised("Invalid JSON response from Ollama: " \o r.msg)

\* the other providers: json.loads, and {} on json.JSONDecodeError
LoadsOrEmpty(text) ==
    LET r == json_loads(text) IN
    IF r.ok THEN Returned(r.val) ELSE Returned(JDict(<<>>, <<>>))

\* the end of generate(): the parsed value for json, the text itself otherwise
ParseResponse(cls, format, text) ==
    IF format # "json" THEN Returned(JStr(text))
    ELSE IF cls = "OllamaProvider" THEN OllamaParse(text)
    ELSE LoadsOrEmpty(text)

\* the statuses of an HTTP error response and the bodies that come with them
HttpErrorStatuses == {400, 429, 500, 502, 503}
HttpErrorBodies ==
    {"Bad Gateway", "", "upstream request failed",
     "{\"error\": {\"message\": \"Too many requests\", \"code\": 429, \"status\": \"RESOURCE_EXHAUSTED\"}}",
     "{\"error\": {\"message\": \"The model is overloaded\", \"code\": 503, \"status\": \"UNAVAILABLE\"}}",
     "{\"error\": {\"message\": \"Daily quota used up\"}}"}

\* d.get(key, default) on a parsed JSON object
JGet(d, key, default) ==
    IF \E i \in 1..Len(d.keys) : d.keys[i] = key
    THEN d.items[CHOOSE i \in 1..Len(d.keys) : d.keys[i] = key]
    ELSE default

\* GeminiProvider: the error raised for a response whose status is not 200
GeminiHttpError(status, body) ==
    LET error_json == json_loads(body)
        error == JGet(error_json.val, "error", JDict(<<>>, <<>>))
        error_message == JGet(error, "message", JStr("Unknown error")).s
        error_code == JGet(error, "code", JInt(status)).n
        error_status == JGet(error, "status", JStr("UNKNOWN")).s
    IN  IF ~error_json.ok
        THEN "Gemini API error (status " \o ToString(status) \o "): " \o body
        ELSE IF Contains(error_message, "API key not valid")
                \/ Contains(body, "API_KEY_INVALID")
        THEN "Invalid Gemini API key. Please check your API key at https://aistudio.google.com/app/apikey"
        ELSE IF error_code = 429
        THEN "Gemini API quota exceeded. Please check your usage limits."
        ELSE IF error_code = 503 \/ error_status = "UNAVAILABLE"
        THEN "Gemini API is temporarily unavailable (503): " \o error_message
             \o ". This is usually temporary - please try again in a few moments or use a different provider."
        ELSE IF error_code >= 500
        THEN "Gemini API server error (code " \o ToString(error_code) \o "): "
             \o error_message \o ". Please try again later."
        ELSE "Gemini API error (code " \o ToString(error_code) \o "): "
             \o error_message

\* OpenAIProvider: the except-branch of generate() on the message of the
\* client library's error
OpenAIError(error_msg) ==
    IF Contains(StrLower(error_msg), "quota") \/ Contains(error_msg, "429")
    THEN "API quota exceeded. Please add credits to your OpenAI account."
    ELSE "OpenAI API error: " \o error_msg

\* the message of the Exception generate() raises for an HTTP error response;
\* the OpenAI client library words a status error "Error code: <status> - <body>"
HttpErrorMessage(cls, status, body) ==
    CASE cls = "OpenAIProvider" ->
            OpenAIError("Error code: " \o ToString(status) \o " - " \o body)
      [] cls = "OllamaProvider" ->
            "Ollama API returned status " \o ToString(status) \o ": " \o body
      [] cls = "HuggingFaceProvider" ->
            "HuggingFace API error: HuggingFace API error: " \o body
      [] cls = "TogetherAIProvider" ->
            "Together AI API error: Together AI API error: " \o body
      [] cls = "GroqProvider" ->
            "Groq API error: Groq API error: " \o body
      [] cls = "ReplicateProvider" ->
            "Replicate API error: Replicate API error: " \o body
      [] cls = "GeminiProvider" ->
            "Gemini API error: " \o GeminiHttpError(status, body)

GenerateInit ==
    /\ gen_cls \in ProviderClasses
    /\ gen_format \in {"json", "text"}
    /\ \/ gen_status = 200 /\ gen_content \in ResponseTexts
       \/ gen_status \in HttpErrorStatuses /\ gen_content \in HttpErrorBodies
    /\ gen_pc = "answered"
    /\ gen_result = NoExtraction

GenerateIdle ==
    /\ gen_cls = None
    /\ gen_format = "text"
    /\ gen_status = 200
    /\ gen_content = ""
    /\ gen_pc = "idle"
    /\ gen_result = NoExtraction

GenerateEnds ==
    /\ gen_pc = "answered"
    /\ gen_result' =
          IF gen_status = 200
          THEN ParseResponse(gen_cls, gen_format, gen_content)
          ELSE Raised(HttpErrorMessage(gen_cls, gen_status, gen_content))
    /\ gen_pc' = "done"
    /\ UNCHANGED <<gen_cls, gen_format, gen_status, gen_content>>
    /\ UNCHANGED notGen

(***************************************************************************)
(* ReplicateProvider.generate: one submit, then the polling loop.          *)
(***************************************************************************)
\* range(30): the polls of one generate()
PollAttempts == 30

\* the statuses a prediction reports
PollStatuses == {"starting", "processing", "canceled", "succeeded", "failed"}
\* the output field of a succeeded prediction: the joined strings of a list,
\* or None for an output that is null
PredictionOutputs == {"{\"title\": \"Intro\"}", "no json here", None}

\* the end of generate() on a succeeded prediction: "".join(output), then
\* the format branch; joining null raises TypeError into the generic handler
RepSucceeded(format, output) ==
    IF output = None
    THEN Raised("Replicate API error: can only join an iterable")
    ELSE IF format = "json" THEN LoadsOrEmpty(output)
    ELSE Returned(JStr(output))

ReplicateInit ==
    /\ rep_format \in {"json", "text"}
    /\ rep_pc = "submit"
    /\ rep_sleeps = 0
    /\ rep_polls = 0
    /\ rep_last = None
    /\ rep_terminal = 0
    /\ rep_result = NoExtraction

ReplicateIdle ==
    /\ rep_format = "text"
    /\ rep_pc = "idle"
    /\ rep_sleeps = 0
    /\ rep_polls = 0
    /\ rep_last = None
    /\ rep_terminal = 0
    /\ rep_result = NoExtraction

\* session.post answers 201: the loop starts
RepSubmitted ==
    /\ rep_pc = "submit"
    /\ rep_pc' = "sleep"
    /\ UNCHANGED <<rep_format, rep_sleeps, rep_polls, rep_last, rep_terminal,
                   rep_result>>
    /\ UNCHANGED notRep

\* session.post answers another status, or fails
RepSubmitFails ==
    /\ rep_pc = "submit"
    /\ \E body \in HttpErrorBodies :
          rep_result' =
             Raised(HttpErrorMessage("ReplicateProvider", 500, body))
    /\ rep_pc' = "done"
    /\ UNCHANGED <<rep_format, rep_sleeps, rep_polls, rep_last, rep_terminal>>
    /\ UNCHANGED notRep

\* one more iteration of the loop: await asyncio.sleep(1)
RepSleep ==
    /\ rep_pc = "sleep"
    /\ rep_polls < PollAttempts
    /\ rep_sleeps' = rep_sleeps + 1
    /\ rep_pc' = "poll"
    /\ UNCHANGED <<rep_format, rep_polls, rep_last, rep_terminal, rep_result>>
    /\ UNCHANGED notRep

\* session.get answers with the status of the prediction
RepPoll ==
    /\ rep_pc = "poll"
    /\ rep_polls' = rep_polls + 1
    /\ \E status \in PollStatuses :
         /\ rep_last' = status
         /\ IF status = "succeeded"
            THEN /\ \E output \in PredictionOutputs :
                       rep_result' = RepSucceeded(rep_format, output)
                 /\ rep_terminal' = rep_terminal + 1
                 /\ rep_pc' = "done"
            ELSE IF status = "failed"
            THEN /\ rep_result' =
                       Raised("Replicate API error: Replicate prediction failed: Unknown error")
                 /\ rep_terminal' = rep_terminal + 1
                 /\ rep_pc' = "done"
            ELSE /\ rep_pc' = "sleep"
                 /\ UNCHANGED <<rep_terminal, rep_result>>
    /\ UNCHANGED <<rep_format, rep_sleeps>>
    /\ UNCHANGED notRep

\* session.get fails: the generic handler raises
RepPollFails ==
    /\ rep_pc = "poll"
    /\ rep_polls' = rep_polls + 1
    /\ rep_result' = Raised("Replicate API error: Connection error")
    /\ rep_pc' = "done"
    /\ UNCHANGED <<rep_format, rep_sleeps, rep_last, rep_terminal>>
    /\ UNCHANGED notRep

\* a loop that falls through without raising
RepTimeout_NoRaise ==
    /\ rep_pc = "sleep"
    /\ rep_polls >= PollAttempts
    /\ rep_result' = Returned(JNull)
    /\ rep_pc' = "done"
    /\ UNCHANGED <<rep_format, rep_sleeps, rep_polls, rep_last, rep_terminal>>
    /\ UNCHANGED notRep

\* the loop ends without a terminal status
RepTimeout ==
    /\ rep_pc = "sleep"
    /\ rep_polls >= PollAttempts
    /\ rep_result' = Raised(ReplicateTimeoutMsg)
    /\ rep_pc' = "done"
    /\ UNCHANGED <<rep_format, rep_sleeps, rep_polls, rep_last, rep_terminal>>
    /\ UNCHANGED notRep

(***************************************************************************)
(* Concurrent call_llm calls as tasks of one event loop.  A task gives up  *)
(* the loop only at an await; a synchronous call keeps the loop until it   *)
(* returns.                                                                *)
(***************************************************************************)
Tasks == {1, 2}

\* whether the HTTP round trip inside generate() is awaited
\* (aiohttp: async with session.post), or made by a synchronous client
AwaitsResponse(cls) == cls # "OpenAIProvider"

LoopInit ==
    /\ loop_cls \in [Tasks -> ProviderClasses]
    /\ loop_pc = [t \in Tasks |-> "ready"]
    /\ loop_attempt = [t \in Tasks |-> 0]
    /\ loop_blocked = 0

LoopIdle ==
    /\ loop_cls = [t \in Tasks |-> "OpenAIProvider"]
    /\ loop_pc = [t \in Tasks |-> "idle"]
    /\ loop_attempt = [t \in Tasks |-> 0]
    /\ loop_blocked = 0

\* task t starts an attempt: provider.generate() sends the request
LoopStartAttempt(t) ==
    /\ loop_blocked = 0
    /\ loop_pc[t] = "ready"
    /\ loop_attempt[t] < MaxAttempts
    /\ loop_attempt' = [loop_attempt EXCEPT ![t] = @ + 1]
    /\ loop_pc' = [loop_pc EXCEPT ![t] = "in_flight"]
    /\ loop_blocked' = IF AwaitsResponse(loop_cls[t]) THEN 0 ELSE t
    /\ UNCHANGED loop_cls
    /\ UNCHANGED notLoop

\* the response of t's request arrives and t runs on: it completes, or
\* goes to the backoff sleep after a retriable failure
LoopResponse(t) ==
    /\ loop_blocked \in {0, t}
    /\ loop_pc[t] = "in_flight"
    /\ \E ok \in BOOLEAN :
          loop_pc' = [loop_pc EXCEPT ![t] =
                         IF ok \/ loop_attempt[t] >= MaxAttempts
                         THEN "done" ELSE "sleeping"]
    /\ loop_blocked' = 0
    /\ UNCHANGED <<loop_cls, loop_attempt>>
    /\ UNCHANGED notLoop

\* asyncio.sleep(delay) of t ends
LoopWake(t) ==
    /\ loop_blocked = 0
    /\ loop_pc[t] = "sleeping"
    /\ loop_pc' = [loop_pc EXCEPT ![t] = "ready"]
    /\ UNCHANGED <<loop_cls, loop_attempt, loop_blocked>>
    /\ UNCHANGED notLoop

\* one step of task t
LoopStep(t) == LoopStartAttempt(t) \/ LoopResponse(t) \/ LoopWake(t)

(***************************************************************************)
(* generate_tutorial: the job that builds one tutorial.                    *)
(***************************************************************************)
\* the parameters of create_gpt_module_prompt
ModulePromptParameters ==
    {"level", "module_outline", "file_content", "full_outline"}

\* the keyword arguments generate_tutorial passes
ModulePromptArguments == {"level", "module_outline", "file_content"}

\* a call of create_gpt_module_prompt: the prompt, or the TypeError of a
\* call that leaves out a required parameter
create_gpt_module_prompt(arguments) ==
    IF ModulePromptParameters \subseteq arguments
    THEN [ok |-> TRUE, msg |-> None]
    ELSE [ok |-> FALSE,
          msg |-> "create_gpt_module_prompt() missing 1 required positional argument: full_outline"]

JobInit ==
    /\ job_user \in BOOLEAN
    /\ job_settings \in BOOLEAN
    /\ job_has_key \in BOOLEAN
    /\ job_provider_ok \in BOOLEAN
    /\ job_generation \in BOOLEAN
    /\ job_repo \in BOOLEAN
    /\ job_clone_ok \in BOOLEAN
    /\ job_llm_ok \in BOOLEAN
    /\ job_outline \in 0..MaxModules
    /\ job_pc = "start"
    /\ job_index = 0
    /\ generation_status = IF job_generation THEN "PENDING" ELSE None
    /\ generation_progress = 0
    /\ job_result = None

JobIdle ==
    /\ job_user = TRUE
    /\ job_settings = TRUE
    /\ job_has_key = TRUE
    /\ job_provider_ok = TRUE
    /\ job_generation = TRUE
    /\ job_repo = TRUE
    /\ job_clone_ok = TRUE
    /\ job_llm_ok = TRUE
    /\ job_outline = 1
    /\ job_pc = "idle"
    /\ job_index = 0
    /\ generation_status = "PENDING"
    /\ generation_progress = 0
    /\ job_result = None

\* update_generation_progress: writes only when the record is found
SetProgress(status, progress) ==
    IF job_generation
    THEN /\ generation_status' = status
         /\ generation_progress' = progress
    ELSE UNCHANGED <<generation_status, generation_progress>>

\* the except-branch of the job: FAILED with progress 0, then the error dict
JobFails ==
    /\ SetProgress("FAILED", 0)
    /\ job_pc' = "returned"
    /\ job_result' = "error"

\* settings, provider, generation and repository are looked up
JobStart ==
    /\ job_pc = "start"
    /\ IF ~job_settings /\ ~job_user THEN JobFails
       ELSE IF ~(job_settings /\ job_has_key) THEN JobFails
       ELSE IF ~job_provider_ok THEN JobFails
       ELSE IF ~job_generation
       THEN /\ job_pc' = "returned"
            /\ job_result' = "error"
            /\ UNCHANGED <<generation_status, generation_progress>>
       ELSE IF ~job_repo THEN JobFails
       ELSE /\ SetProgress("CLONING", 10)
            /\ job_pc' = "clone"
            /\ UNCHANGED job_result
    /\ UNCHANGED <<jobInputs, job_index>>
    /\ UNCHANGED notJob

\* git.Repo.clone_from
JobClone ==
    /\ job_pc = "clone"
    /\ IF job_clone_ok
       THEN /\ SetProgress("ANALYZING", 30)
            /\ job_pc' = "analyze"
            /\ UNCHANGED job_result
       ELSE JobFails
    /\ UNCHANGED <<jobInputs, job_index>>
    /\ UNCHANGED notJob

\* run_tree_sitter_analysis
JobAnalyze ==
    /\ job_pc = "analyze"
    /\ SetProgress("PROCESSING", 50)
    /\ job_pc' = "summarize"
    /\ UNCHANGED <<jobInputs, job_index, job_result>>
    /\ UNCHANGED notJob

\* run_codebert_summarization, generate_dependency_graph
JobSummarize ==
    /\ job_pc = "summarize"
    /\ SetProgress("GENERATING", 65)
    /\ job_pc' = "extract"
    /\ UNCHANGED <<jobInputs, job_index, job_result>>
    /\ UNCHANGED notJob

\* extract_repository_contents
JobExtract ==
    /\ job_pc = "extract"
    /\ SetProgress("GENERATING", 70)
    /\ job_pc' = "outline"
    /\ UNCHANGED <<jobInputs, job_index, job_result>>
    /\ UNCHANGED notJob

\* call_llm for the outline, the empty-outline check, the Tutorial row
JobOutline ==
    /\ job_pc = "outline"
    /\ IF ~job_llm_ok \/ job_outline = 0
       THEN JobFails
       ELSE /\ job_pc' = "module"
            /\ UNCHANGED <<generation_status, generation_progress,
                           job_result>>
    /\ UNCHANGED <<jobInputs, job_index>>
    /\ UNCHANGED notJob

\* one iteration of the module loop: progress, the module prompt, call_llm
\* for the module and for the quiz; after the last one the job completes
JobModule ==
    /\ job_pc = "module"
    /\ job_index < job_outline
    /\ IF ~create_gpt_module_prompt(ModulePromptArguments).ok
       THEN /\ JobFails
            /\ UNCHANGED job_index
       ELSE /\ job_index' = job_index + 1
            /\ IF job_index + 1 = job_outline
               THEN /\ SetProgress("COMPLETED", 100)
                    /\ job_pc' = "returned"
                    /\ job_result' = "success"
               ELSE /\ SetProgress("GENERATING",
                                   70 + ((job_index * 25) \div job_outline))
                    /\ UNCHANGED <<job_pc, job_result>>
    /\ UNCHANGED jobInputs
    /\ UNCHANGED notJob

RestIdle == ReplicateIdle /\ LoopIdle /\ JobIdle

(***************************************************************************)
(* Specifications.                                                         *)
(***************************************************************************)
CallLlmIdle ==
    /\ provider = None
    /\ response_format = "text"
    /\ max_retries = 0
    /\ retry_delay = 0
    /\ attempt = 0
    /\ last_exception = None
    /\ pc = "idle"
    /\ history = <<>>
    /\ result = NoResult

FallbackIdle ==
    /\ user_settings = NoSettings
    /\ fb_format = "text"
    /\ fb_max_retries = 0
    /\ available_providers = <<>>
    /\ idx = 0
    /\ errors = <<>>
    /\ fb_pc = "idle"
    /\ fb_trace = <<>>
    /\ fb_result = NoResult

\* one call of call_llm
Init == CallLlmInit /\ FallbackIdle /\ GapIdle /\ ExtractIdle /\ GenerateIdle /\ RestIdle

Next ==
    \/ FirstAttempt
    \/ Backoff
    \/ GenerateReturns
    \/ GenerateRaises

Spec == Init /\ [][Next]_vars

\* one call of call_llm_with_fallback
InitFallback == CallLlmIdle /\ FallbackInit /\ GapIdle /\ ExtractIdle /\ GenerateIdle /\ RestIdle

NextFallback ==
    \/ FbStart
    \/ FbCreate
    \/ FbGenerateReturns
    \/ FbGenerateRaises
    \/ FbExhausted

SpecFallback == InitFallback /\ [][NextFallback]_vars

\* successive calls of get_available_providers on one UserSettings row
InitProviders == CallLlmIdle /\ FallbackIdle /\ GapInit /\ ExtractIdle /\ GenerateIdle /\ RestIdle

NextProviders == GapCall

SpecProviders == InitProviders /\ [][NextProviders]_vars

\* one call of extract_json_from_response
InitExtract == CallLlmIdle /\ FallbackIdle /\ GapIdle /\ ExtractInit /\ GenerateIdle /\ RestIdle

NextExtract == Extract

SpecExtract == InitExtract /\ [][NextExtract]_vars

\* one call of call_llm or of call_llm_with_fallback in a task that its
\* caller may cancel at any await
InitCancel ==
    /\ \/ CallLlmInit /\ FallbackIdle
       \/ CallLlmIdle /\ FallbackInit
    /\ GapIdle /\ ExtractIdle /\ GenerateIdle /\ RestIdle

NextCancel ==
    \/ Next
    \/ NextFallback
    \/ CancelCallLlm
    \/ CancelFallback

SpecCancel == InitCancel /\ [][NextCancel]_vars

\* one generate() call of ReplicateProvider; every request it awaits is
\* answered or fails, and every sleep ends
InitReplicate ==
    CallLlmIdle /\ FallbackIdle /\ GapIdle /\ ExtractIdle /\ GenerateIdle
    /\ ReplicateInit /\ LoopIdle /\ JobIdle

NextReplicate ==
    \/ RepSubmitted
    \/ RepSubmitFails
    \/ RepSleep
    \/ RepPoll
    \/ RepPollFails
    \/ RepTimeout

SpecReplicate ==
    InitReplicate /\ [][NextReplicate]_vars /\ WF_vars(NextReplicate)

\* two call_llm calls running as tasks of one event loop
InitLoop ==
    CallLlmIdle /\ FallbackIdle /\ GapIdle /\ ExtractIdle /\ GenerateIdle
    /\ ReplicateIdle /\ LoopInit /\ JobIdle

NextLoop ==
    \/ \E t \in Tasks : LoopStartAttempt(t)
    \/ \E t \in Tasks : LoopResponse(t)
    \/ \E t \in Tasks : LoopWake(t)

SpecLoop == InitLoop /\ [][NextLoop]_vars

\* one generate_tutorial job, run to its return by the worker
InitJob ==
    CallLlmIdle /\ FallbackIdle /\ GapIdle /\ ExtractIdle /\ GenerateIdle
    /\ ReplicateIdle /\ LoopIdle /\ JobInit

NextJob ==
    \/ JobStart
    \/ JobClone
    \/ JobAnalyze
    \/ JobSummarize
    \/ JobExtract
    \/ JobOutline
    \/ JobModule

SpecJob == InitJob /\ [][NextJob]_vars /\ WF_vars(NextJob)

\* the end of one generate() call
InitGenerate ==
    CallLlmIdle /\ FallbackIdle /\ GapIdle /\ ExtractIdle /\ GenerateInit
    /\ RestIdle

NextGenerate == GenerateEnds

SpecGenerate == InitGenerate /\ [][NextGenerate]_vars

\* one call of call_llm_with_fallback run by the event loop: the coroutine is
\* resumed whenever it can take a step, and every generate() it awaits
\* returns or raises
SpecFallbackFair == SpecFallback /\ WF_vars(NextFallback)

(***************************************************************************)
(* Helpers of the properties.                                              *)
(***************************************************************************)
IsCall(ev) == ev.op \in {"ok", "error"}
GenerateCalls == { i \in 1..Len(history) : IsCall(history[i]) }
Sleeps == { i \in 1..Len(history) : history[i].op = "sleep" }
\* the call ended right at the event i of history
EndedAt(i) == pc = "done" /\ i = Len(history)

FbEvents(op, pos) ==
    { i \in 1..Len(fb_trace) : fb_trace[i].op = op /\ fb_trace[i].pos = pos }
\* positions for which create_llm_provider has been called
Attempted == { fb_trace[i].pos : i \in 1..Len(fb_trace) }
\* the failure (ValueError or generate() error) met at an attempted position
FailureAt(pos) ==
    LET i == CHOOSE j \in 1..Len(fb_trace) :
                 fb_trace[j].pos = pos /\ ~fb_trace[j].ok
    IN  fb_trace[i].res

(***************************************************************************)
(* C1: call_llm_with_fallback tries the providers strictly in list order   *)
(* and stops at the first success: when the provider at position k is the  *)
(* first whose generate() returns, the call returns that payload with that *)
(* provider's kind, the error list holds exactly the k-1 earlier providers *)
(* in list order, and nothing after position k is constructed or invoked.  *)
(***************************************************************************)
C1_OrderedShortCircuit ==
    /\ \A i, j \in 1..Len(fb_trace) :
          i < j => /\ fb_trace[i].pos <= fb_trace[j].pos
                   /\ ~(fb_trace[i].op = "generate" /\ fb_trace[i].ok)
    /\ \A i \in 1..Len(fb_trace) :
          fb_trace[i].op = "generate" /\ fb_trace[i].ok =>
             LET k == fb_trace[i].pos IN
             /\ fb_pc = "done"
             /\ fb_result = [tag |-> "return",
                             value |-> <<fb_trace[i].res,
                                         available_providers[k].provider_type>>]
             /\ Len(errors) = k - 1
             /\ \A j \in 1..(k - 1) :
                   errors[j] = <<available_providers[j].provider_type,
                                 FailureAt(j)>>
             /\ \A p \in Attempted : p <= k

\* C1 witness: A and B fail, C succeeds, a fourth provider D is configured
C1_Witness ==
    /\ fb_pc = "done"
    /\ fb_result.tag = "return"
    /\ idx = 2
    /\ Len(errors) = 2
    /\ Len(available_providers) = 4

C3_FatalIsRaised ==
    \A i \in 1..Len(history) :
       history[i].op = "error" /\ Kind(history[i].val) \in FatalKinds
          => result.tag = "raise"

(***************************************************************************)
(* C4: in call_llm, once an attempt fails with an error classified as      *)
(* QuotaExceeded or AuthInvalid (also when its message matches a retriable *)
(* pattern) no further generate() call and no further sleep happens; on    *)
(* the first attempt that is exactly 1 generate() call and 0 sleeps.       *)
(***************************************************************************)
C4_FatalStops ==
    \A i \in 1..Len(history) :
       history[i].op = "error" /\ Kind(history[i].val) \in FatalKinds =>
          /\ EndedAt(i)
          /\ history[i].n = 1 =>
                Cardinality(GenerateCalls) = 1 /\ Sleeps = {}

\* C4 witness: a first-attempt failure that matches both the quota and the
\* retriable patterns, with attempts left
C4_Witness ==
    /\ pc = "done"
    /\ max_retries > 1
    /\ Len(history) = 1
    /\ history[1].op = "error"
    /\ is_quota_error(history[1].val)
    /\ is_retriable(history[1].val)

(***************************************************************************)
(* C5: in call_llm an attempt that fails with Timeout,                     *)
(* TemporarilyUnavailable or FormatViolation is followed by another        *)
(* attempt on the same provider whenever fewer than max_retries attempts   *)
(* have been made; if a later attempt succeeds its result is returned and  *)
(* no error reaches the caller.                                            *)
(***************************************************************************)
C5_RetriableIsRetried ==
    /\ \A i \in 1..Len(history) :
          ( /\ history[i].op = "error"
            /\ Kind(history[i].val) \in RetriableKinds
            /\ history[i].n < max_retries )
          => /\ ~EndedAt(i)
             /\ i = Len(history) =>
                   pc = "loop" /\ attempt = history[i].n /\ ENABLED Backoff
             /\ i < Len(history) => history[i + 1].op = "sleep"
             /\ i + 1 < Len(history) =>
                   IsCall(history[i + 2]) /\ history[i + 2].n = history[i].n + 1
    /\ \A i \in 1..Len(history) :
          history[i].op = "ok" =>
             EndedAt(i) /\ result = [tag |-> "return", value |-> history[i].val]

\* C5 witness: Timeout on attempts 1 and 2, success on attempt 3
C5_Witness ==
    /\ pc = "done"
    /\ Len(history) = 5
    /\ history[1].op = "error" /\ Kind(history[1].val) = "Timeout"
    /\ history[3].op = "error" /\ Kind(history[3].val) = "Timeout"
    /\ history[5].op = "ok"
    /\ result.tag = "return"

(***************************************************************************)
(* C6 (as claimed): in call_llm an attempt that fails with                 *)
(* ConnectionFailed (e.g. "Cannot connect to ...") or with a RateLimited   *)
(* signal is retried on the same provider while attempts remain.           *)
(***************************************************************************)
C6_Original ==
    \A i \in 1..Len(history) :
       ( /\ history[i].op = "error"
         /\ history[i].origin \in {"ConnectionFailed", "RateLimited"}
         /\ history[i].n < max_retries )
       => ~EndedAt(i)

(***************************************************************************)
(* C6 (amended): in call_llm a ConnectionFailed failure whose message      *)
(* matches no retriable, quota or auth pattern (e.g. "Cannot connect to    *)
(* Ollama at ...") is not retried but re-raised at once, and a RateLimited *)
(* failure whose message contains "rate limit" or "429" is handled as      *)
(* quota exhaustion and ends the call at once, whatever attempts remain.   *)
(***************************************************************************)
C6_Amended ==
    \A i \in 1..Len(history) :
       history[i].op = "error" =>
          /\ ( /\ history[i].origin = "ConnectionFailed"
               /\ Kind(history[i].val) = "Unknown" )
             => EndedAt(i) /\ result = [tag |-> "raise", value |-> history[i].val]
          /\ ( /\ history[i].origin = "RateLimited"
               /\ \/ Contains(StrLower(history[i].val), "rate limit")
                  \/ Contains(history[i].val, "429") )
             => EndedAt(i) /\ result.tag \in {"raise", "return"}

\* C6 witness: "Cannot connect to Ollama ..." on the first attempt, with
\* attempts left, ends the call
C6_Witness ==
    /\ pc = "done"
    /\ max_retries > 1
    /\ Len(history) = 1
    /\ history[1].op = "error"
    /\ history[1].origin = "ConnectionFailed"
    /\ Contains(history[1].val, "Cannot connect to")

(***************************************************************************)
(* C7: in call_llm no sleep precedes attempt 1, the sleep right before     *)
(* attempt n (2 <= n <= max_retries) lasts retry_delay * 2^(n-2), and no   *)
(* sleep follows the final failed attempt: the number of sleeps is the     *)
(* number of generate() calls minus one.                                   *)
(***************************************************************************)
C7_BackoffSchedule ==
    /\ \A i \in 1..Len(history) :
          IsCall(history[i]) =>
             IF history[i].n = 1
             THEN i = 1
             ELSE /\ i > 1
                  /\ history[i - 1].op = "sleep"
                  /\ history[i - 1].n = history[i].n
    /\ \A i \in Sleeps :
          /\ history[i].n \in 2..max_retries
          /\ history[i].val = retry_delay * (2 ^ (history[i].n - 2))
          /\ i > 1 /\ history[i - 1].op = "error"
          /\ i < Len(history) =>
                IsCall(history[i + 1]) /\ history[i + 1].n = history[i].n
          /\ i = Len(history) => pc = "generate"
    /\ pc = "done" =>
          Cardinality(Sleeps) = Cardinality(GenerateCalls) - 1

\* C7 witness: three failed attempts, delays 2 and 4, nothing after the last
C7_Witness ==
    /\ pc = "done"
    /\ retry_delay = 2
    /\ Len(history) = 5
    /\ history[2].op = "sleep" /\ history[2].val = 2
    /\ history[4].op = "sleep" /\ history[4].val = 4
    /\ history[5].op = "error"

(***************************************************************************)
(* C8 (as claimed): when every attempt fails with a retriable error,       *)
(* call_llm makes exactly max_retries generate() calls and then raises the *)
(* error observed on the final attempt, annotated with the attempt count.  *)
(***************************************************************************)
C8_ExhaustedRaisesAnnotated ==
    ( /\ pc = "done"
      /\ history # <<>>
      /\ \A i \in GenerateCalls :
            history[i].op = "error" /\ Kind(history[i].val) \in RetriableKinds )
    => /\ Cardinality(GenerateCalls) = max_retries
       /\ result.tag = "raise"
       /\ Contains(result.value, history[Len(history)].val)
       /\ Contains(result.value, ToString(max_retries))

(***************************************************************************)
(* C9: in call_llm a failure that matches none of the quota, auth or       *)
(* retriable classes (Unknown) is never retried: it is re-raised to the    *)
(* caller right after that attempt, with no further generate() call or     *)
(* sleep, whatever attempts remain.                                        *)
(***************************************************************************)
C9_UnknownNotRetried ==
    \A i \in 1..Len(history) :
       history[i].op = "error" /\ Kind(history[i].val) = "Unknown" =>
          /\ EndedAt(i)
          /\ result = [tag |-> "raise", value |-> history[i].val]

\* C9 witness: an Unknown failure on the second attempt of three
C9_Witness ==
    /\ pc = "done"
    /\ max_retries = 3
    /\ Len(history) = 3
    /\ history[3].op = "error"
    /\ Kind(history[3].val) = "Unknown"

(***************************************************************************)
(* C10: if every attempted provider fails, call_llm_with_fallback raises   *)
(* one aggregate error whose message holds, in attempt order, exactly one  *)
(* entry per attempted provider: its kind and its error message cut to its *)
(* first 50 characters; no attempted provider is left out and none that    *)
(* was not attempted is listed.                                            *)
(***************************************************************************)
TruncatedTo50(m) == IF Len(m) <= 50 THEN m ELSE SubSeq(m, 1, 50)

RECURSIVE ExpectedEntries(_, _)
\* the entries for the attempted positions from..to, in order
ExpectedEntries(from, to) ==
    IF from > to THEN ""
    ELSE (IF from > 1 THEN "; " ELSE "")
         \o available_providers[from].provider_type \o ": "
         \o TruncatedTo50(FailureAt(from))
         \o ExpectedEntries(from + 1, to)

C10_AggregateListsAttempts ==
    (fb_pc = "done" /\ fb_result.tag = "raise" /\ available_providers # <<>>)
    => /\ Attempted = 1..Len(errors)
       /\ \A p \in Attempted : \E i \in 1..Len(fb_trace) :
             fb_trace[i].pos = p /\ ~fb_trace[i].ok
       /\ fb_result.value =
             "All LLM providers failed. Errors: "
                \o ExpectedEntries(1, Len(errors))
                \o ". Please check your API keys and quotas."

\* C10 witness: three attempts failed, one message longer and one shorter
\* than 50 characters, and a fourth provider was never attempted
C10_Witness ==
    /\ fb_pc = "done"
    /\ fb_result.tag = "raise"
    /\ Len(errors) = 3
    /\ Len(available_providers) = 4
    /\ \E j \in 1..3 : Len(errors[j][2]) > 50
    /\ \E j \in 1..3 : Len(errors[j][2]) < 50

(***************************************************************************)
(* C11: when get_available_providers returns an empty list,                *)
(* call_llm_with_fallback fails at once with the configuration error "No   *)
(* LLM providers configured...", which is not the aggregate error; no      *)
(* provider is constructed and generate() is never called.                 *)
(***************************************************************************)
C11_EmptyListFailsFast ==
    (fb_pc # "start" /\ available_providers = <<>>)
    => /\ fb_pc = "done"
       /\ fb_result = [tag |-> "raise", value |-> NoProvidersMessage]
       /\ fb_result.value # AggregateMessage(errors)
       /\ ~Contains(fb_result.value, "All LLM providers failed")
       /\ fb_trace = <<>>
       /\ errors = <<>>

\* C11 witness: nothing is configured and the call has ended
C11_Witness ==
    /\ fb_pc = "done"
    /\ get_available_providers(user_settings, None) = <<>>
    /\ fb_result.tag = "raise"
    /\ fb_trace = <<>>

(***************************************************************************)
(* C12: for any max_retries >= 0 and any list length,                      *)
(* call_llm_with_fallback attempts at most max_retries providers and calls *)
(* generate() at most once per attempted provider: a provider at a list    *)
(* position greater than max_retries is never invoked, even if every       *)
(* earlier provider fails.                                                 *)
(***************************************************************************)
C12_AtMostMaxRetriesProviders ==
    /\ Cardinality(Attempted) <= fb_max_retries
    /\ \A i \in 1..Len(fb_trace) : fb_trace[i].pos <= fb_max_retries
    /\ \A p \in 1..Len(available_providers) :
          Cardinality(FbEvents("generate", p)) <= 1
    /\ Cardinality({ i \in 1..Len(fb_trace) : fb_trace[i].op = "generate" })
          <= fb_max_retries

\* C12 witness: every provider within max_retries failed and a configured
\* provider beyond max_retries was left alone
C12_Witness ==
    /\ fb_pc = "done"
    /\ fb_result.tag = "raise"
    /\ fb_max_retries > 0
    /\ Len(available_providers) > fb_max_retries
    /\ Cardinality(Attempted) = fb_max_retries

(***************************************************************************)
(* C13: every call of call_llm_with_fallback in which each generate()      *)
(* returns or raises ends after finitely many steps in exactly one         *)
(* outcome: success (one payload and the kind of the provider that         *)
(* produced it) or failure (one raised error, aggregate or configuration); *)
(* it never yields both and nothing changes after it has ended.            *)
(***************************************************************************)
C13_Outcome ==
    LET wins == { i \in 1..Len(fb_trace) :
                     fb_trace[i].op = "generate" /\ fb_trace[i].ok }
    IN  IF fb_pc = "done"
        THEN \/ /\ fb_result.tag = "return"
                /\ Cardinality(wins) = 1
                /\ \A i \in wins :
                      fb_result.value =
                         <<fb_trace[i].res,
                           available_providers[fb_trace[i].pos].provider_type>>
             \/ /\ fb_result.tag = "raise"
                /\ wins = {}
                /\ fb_result.value \in
                      {NoProvidersMessage, AggregateMessage(errors)}
        ELSE fb_result = NoResult /\ wins = {}

C13_TerminatesInOneOutcome ==
    /\ <>(fb_pc = "done")
    /\ [](C13_Outcome)
    /\ [](Len(fb_trace) <= 2 * Len(available_providers))
    /\ [][fb_pc = "done" => UNCHANGED fbVars]_vars

\* C13 witness: the call ended in success after one recorded failure
C13_Witness ==
    /\ fb_pc = "done"
    /\ fb_result.tag = "return"
    /\ Len(errors) = 1
    /\ Len(fb_trace) = 4

(***************************************************************************)
(* C14: get_available_providers is deterministic and order-preserving: for *)
(* the same settings it always returns the same sequence, with the primary *)
(* provider (when included) at position 1 and the additional entries after *)
(* it in exactly the order their keys appear in llm_provider_keys.         *)
(***************************************************************************)
PrimaryKind == IF Falsy(gap_settings.llm_provider) THEN "openai"
               ELSE gap_settings.llm_provider

PrimaryIncluded ==
    /\ gap_exclude # PrimaryKind
    /\ \/ PrimaryKind = "ollama"
       \/ ~Falsy(gap_settings.llm_api_key)
       \/ PrimaryKind = "openai" /\ ~Falsy(gap_settings.openai_api_key)

\* indexes of the llm_provider_keys items that yield an entry
IncludedKeys ==
    { k \in 1..Len(gap_settings.llm_provider_keys) :
        LET item == gap_settings.llm_provider_keys[k] IN
        /\ item[1] # gap_exclude
        /\ \/ StrLower(item[1]) = "ollama"
           \/ \E c \in 1..Len(item[2]) : CharAt(item[2], c) # " " }

\* the j-th smallest element of IncludedKeys
NthIncludedKey(j) ==
    CHOOSE k \in IncludedKeys :
       Cardinality({ e \in IncludedKeys : e < k }) = j - 1

C14_DeterministicOrder ==
    \A c \in 1..Len(gap_results) :
       LET r == gap_results[c]
           off == IF PrimaryIncluded THEN 1 ELSE 0
       IN  /\ r = gap_results[1]
           /\ Len(r) = off + Cardinality(IncludedKeys)
           /\ PrimaryIncluded =>
                 /\ r[1].provider_type = PrimaryKind
                 /\ r[1].model = gap_settings.llm_model
           /\ \A j \in 1..Cardinality(IncludedKeys) :
                 r[off + j].provider_type =
                    StrLower(gap_settings.llm_provider_keys[NthIncludedKey(j)][1])

\* C14 witness: two calls returned the primary and then the first and third
\* of three keys
C14_Witness ==
    /\ Len(gap_results) = 2
    /\ Len(gap_results[2]) = 3
    /\ PrimaryIncluded
    /\ IncludedKeys = {1, 3}

(***************************************************************************)
(* C20 (as claimed): every entry returned by get_available_providers whose *)
(* kind is not ollama carries a usable credential, non-empty after         *)
(* trimming whitespace, the primary entry as well as the llm_provider_keys *)
(* entries; a configured, non-excluded ollama entry is included with or    *)
(* without a credential.                                                   *)
(***************************************************************************)
UsableCredential(key) == key # None /\ key # "" /\ StrStrip(key) # ""

C20_UsableCredentials ==
    \A c \in 1..Len(gap_results) :
       /\ \A j \in 1..Len(gap_results[c]) :
             gap_results[c][j].provider_type # "ollama"
                => UsableCredential(gap_results[c][j].api_key)
       /\ (PrimaryKind = "ollama" /\ gap_exclude # "ollama")
             => gap_results[c][1].provider_type = "ollama"
       /\ \A k \in 1..Len(gap_settings.llm_provider_keys) :
             ( /\ StrLower(gap_settings.llm_provider_keys[k][1]) = "ollama"
               /\ gap_settings.llm_provider_keys[k][1] # gap_exclude )
             => \E j \in 1..Len(gap_results[c]) :
                   gap_results[c][j].provider_type = "ollama"

(***************************************************************************)
(* Helpers of the extraction properties.                                   *)
(***************************************************************************)
Extracted == ex_pc = "done"
BodyIsJson == json_loads(ex_body).ok
BodyValue == json_loads(ex_body).val
BodyIsContainer == BodyIsJson /\ BodyValue.t \in {"dict", "list"}
Recovered == ex_result.tag = "return" /\ DeepEqual(ex_result.value, BodyValue)
Fenced == ex_wrap # "bare"
Blank(s) == \A i \in 1..Len(s) : IsSpace(CharAt(s, i))
HasBracket(s) == \E i \in 1..Len(s) : CharAt(s, i) \in {"{", "}", "[", "]"}

PlainProse(s) == ~Contains(s, Tick) /\ ~Contains(s, "\"")

C17_RecoversFromProse ==
    ( /\ Extracted /\ ~Fenced /\ BodyIsContainer
      /\ ~Blank(ex_before) \/ ~Blank(ex_after)
      /\ PlainProse(ex_before) /\ ~HasBracket(ex_before)
      /\ PlainProse(ex_after) /\ ~HasBracket(ex_after) )
    => Recovered

(***************************************************************************)
(* C18: extract_json_from_response never yields a false positive: every    *)
(* value it returns is the JSON parse of a contiguous substring of the     *)
(* input, and when no candidate parses (plain prose without brackets) it   *)
(* raises an error carrying at most the first 200 characters of the        *)
(* original, unstripped content instead of returning a value.              *)
(***************************************************************************)
ErrorHead == "No valid JSON found in response. Response starts with: "

C18_NoFalsePositive ==
    Extracted =>
       /\ ex_result.tag \in {"return", "raise"}
       /\ ex_result.tag = "return" =>
             \E a \in 1..Len(content) : \E b \in a..Len(content) :
                LET r == json_loads(SubSeq(content, a, b))
                IN  r.ok /\ r.val = ex_result.value
       /\ ex_result.tag = "raise" =>
             \E n \in 0..200 :
                /\ n <= Len(content)
                /\ ex_result.msg = ErrorHead \o SubSeq(content, 1, n)
                /\ n = 200 \/ n = Len(content)
       /\ (~HasBracket(content) /\ ~BodyIsJson) => ex_result.tag = "raise"

\* C18 witness: prose of more than 200 characters after leading whitespace
\* was refused with a preview of exactly the first 200, whitespace included
C18_Witness ==
    /\ Extracted /\ ex_result.tag = "raise"
    /\ Len(content) > 200
    /\ ex_before = "  \n"
    /\ Len(ex_result.msg) = Len(ErrorHead) + 200
    /\ At(ex_result.msg, Len(ErrorHead) + 1, "  \nThe model")

(***************************************************************************)
(* C15 (as claimed): for every provider implementation, when json output   *)
(* is requested a successful generate() returns a value parsed from the    *)
(* text of the backend's answer; if that text cannot be parsed as JSON,    *)
(* generate() fails with an error instead of returning a successful value  *)
(* that was not derived from the answer.                                   *)
(***************************************************************************)
ParsedFromAnswer(val) ==
    \E a \in 1..Len(gen_content) : \E b \in a..Len(gen_content) :
       LET r == json_loads(SubSeq(gen_content, a, b))
       IN  r.ok /\ r.val = val

C15_ParsedOrRaised ==
    (gen_pc = "done" /\ gen_format = "json" /\ gen_status = 200) =>
       /\ gen_result.tag \in {"return", "raise"}
       /\ gen_result.tag = "return" => ParsedFromAnswer(gen_result.value)

(***************************************************************************)
(* C19: if the caller's task is cancelled while call_llm is in a backoff   *)
(* sleep or while a generate() call is in flight (in call_llm or in        *)
(* call_llm_with_fallback), the cancellation propagates to the caller: the *)
(* pending sleep is cut short, no further generate() call is made, the     *)
(* cancellation is not recorded as a provider failure and the orchestrator *)
(* does not advance to the next provider.                                  *)
(***************************************************************************)
\* the provider failures the fallback trace holds
FailureEvents ==
    { i \in 1..Len(fb_trace) :
         fb_trace[i].op \in {"create", "generate"} /\ ~fb_trace[i].ok }

C19_CancellationPropagates ==
    /\ \A i \in 1..Len(history) :
          history[i].op = "cancel" =>
             /\ i = Len(history)
             /\ pc = "cancelled"
             /\ result = [tag |-> "cancelled", value |-> None]
             /\ attempt = history[i].n - 1
             /\ last_exception # ""
             /\ history[i].val = "sleep" =>
                   /\ i > 1
                   /\ history[i - 1].op = "error"
    /\ \A i \in 1..Len(fb_trace) :
          fb_trace[i].op = "cancel" =>
             /\ i = Len(fb_trace)
             /\ fb_pc = "cancelled"
             /\ fb_result = [tag |-> "cancelled", value |-> None]
             /\ idx = fb_trace[i].pos - 1
             /\ Len(errors) = Cardinality(FailureEvents)
             /\ \A e \in 1..Len(errors) : errors[e][2] # ""
    /\ pc = "cancelled" => history[Len(history)].op = "cancel"
    /\ fb_pc = "cancelled" => fb_trace[Len(fb_trace)].op = "cancel"

\* C19 witness: call_llm was cancelled in the backoff sleep before its third
\* attempt, after two generate() calls
C19_Witness ==
    /\ pc = "cancelled"
    /\ Len(history) = 4
    /\ history[4].val = "sleep"
    /\ history[4].n = 3
    /\ Cardinality(GenerateCalls) = 2

(***************************************************************************)
(* C21 (as claimed): when exclude_provider is given, the list returned by  *)
(* get_available_providers holds no entry whose kind equals                *)
(* exclude_provider, neither the primary entry nor any llm_provider_keys   *)
(* entry, whatever the letter case in which the key is stored.             *)
(***************************************************************************)
C21_ExcludedAbsent ==
    gap_exclude # None =>
       \A c \in 1..Len(gap_results) :
          \A j \in 1..Len(gap_results[c]) :
             gap_results[c][j].provider_type # gap_exclude

(***************************************************************************)
(* C22 (as claimed): whenever json output was requested from the Ollama    *)
(* provider and extract_json_from_response fails on the response, the      *)
(* error generate() raises is one call_llm classifies as retriable         *)
(* (FormatViolation), so call_llm attempts the same provider again while   *)
(* attempts remain.                                                        *)
(***************************************************************************)
\* answers of the Ollama backend on which the extraction fails
UnparsableAnswers == {"# Tutorial", "I cannot comply with that request."}

\* the message is what OllamaProvider.generate raises for such an answer
IsExtractionFailure(msg) ==
    \E text \in UnparsableAnswers :
       /\ OllamaParse(text).tag = "raise"
       /\ OllamaParse(text).msg = msg

C22_ExtractionFailureRetried ==
    \A i \in 1..Len(history) :
       ( /\ history[i].op = "error"
         /\ provider = "OllamaProvider" /\ response_format = "json"
         /\ IsExtractionFailure(history[i].val)
         /\ history[i].n < max_retries )
       => /\ Kind(history[i].val) = "FormatViolation"
          /\ ~EndedAt(i)
          /\ i < Len(history) => history[i + 1].op = "sleep"

(***************************************************************************)
(* C23 (as claimed): for every provider implementation, the class under    *)
(* which call_llm treats an HTTP error response is determined by its       *)
(* status code: a 429 response results in QuotaExceeded (no retry) and a   *)
(* 502 or 503 response results in TemporarilyUnavailable (retried),        *)
(* independent of the text of the response body.                           *)
(***************************************************************************)
C23_ClassByStatus ==
    (gen_pc = "done" /\ gen_status # 200) =>
       /\ gen_result.tag = "raise"
       /\ gen_status = 429 =>
             /\ Kind(gen_result.msg) = "QuotaExceeded"
             /\ OnException(gen_result.msg, 0, 3, gen_format, gen_cls).act
                   # "continue"
       /\ gen_status \in {502, 503} =>
             /\ Kind(gen_result.msg) = "TemporarilyUnavailable"
             /\ OnException(gen_result.msg, 0, 3, gen_format, gen_cls).act
                   = "continue"

(***************************************************************************)
(* C24 (as claimed): for every provider implementation, a request whose    *)
(* deadline is exceeded (the HTTP client timeout firing) surfaces as an    *)
(* error that call_llm classifies as Timeout and therefore retries while   *)
(* attempts remain.                                                        *)
(***************************************************************************)
C24_TimeoutRetried ==
    \A i \in 1..Len(history) :
       ( /\ history[i].op = "error"
         /\ history[i].origin = "Timeout"
         /\ history[i].n < max_retries )
       => /\ Kind(history[i].val) = "Timeout"
          /\ ~EndedAt(i)
          /\ i < Len(history) => history[i + 1].op = "sleep"

(***************************************************************************)
(* C25 (as claimed): every failure raised by a provider call reaches       *)
(* call_llm as exactly one error kind, so call_llm's retry/abort decision  *)
(* is a function of that kind alone: two failures of the same kind get the *)
(* same decision regardless of the free text of their messages, including  *)
(* model response text or URLs embedded in the message.                    *)
(***************************************************************************)
\* what generate() of the same provider makes of another answer text
OutcomeOf(text) ==
    IF gen_status = 200 THEN ParseResponse(gen_cls, gen_format, text)
    ELSE Raised(HttpErrorMessage(gen_cls, gen_status, text))

\* the answers that fail in the same way as the one received: an HTTP error
\* of the same status, or an answer on which the JSON extraction fails
SameKindAnswers ==
    { text \in (IF gen_status = 200 THEN ResponseTexts ELSE HttpErrorBodies) :
         OutcomeOf(text).tag = "raise" }

\* call_llm's decision on the first attempt of three
DecisionOn(msg) == OnException(msg, 0, 3, gen_format, gen_cls).act

C25_DecisionByKindAlone ==
    (gen_pc = "done" /\ gen_result.tag = "raise") =>
       \A text \in SameKindAnswers :
          DecisionOn(OutcomeOf(text).msg) = DecisionOn(gen_result.msg)

(***************************************************************************)
(* C26 as stated: ReplicateProvider.generate folds polling into one        *)
(* bounded operation: after a successful submit it issues at most 30       *)
(* status polls, each preceded by a 1-second sleep; it returns at the      *)
(* first poll reporting succeeded, fails at the first poll reporting       *)
(* failed, never polls again after either, and fails with a timeout error  *)
(* after the 30th poll if no terminal status was seen; so it always        *)
(* terminates.                                                             *)
(***************************************************************************)
C26_Polls ==
    /\ rep_polls <= 30
    /\ rep_sleeps <= 30
    /\ rep_pc = "poll" => rep_sleeps = rep_polls + 1
    /\ rep_pc \in {"sleep", "done"} => rep_sleeps = rep_polls
    /\ rep_terminal <= 1
    /\ rep_terminal = 1 =>
          /\ rep_pc = "done"
          /\ rep_last \in {"succeeded", "failed"}
    /\ (rep_pc # "done" /\ rep_polls > 0) =>
          rep_last \notin {"succeeded", "failed"}
    /\ (rep_pc = "done" /\ rep_result.msg = ReplicateTimeoutMsg) =>
          /\ rep_polls = 30
          /\ rep_terminal = 0
    /\ (rep_pc = "sleep" /\ rep_polls = 30) => ~ ENABLED RepSleep
    /\ (rep_pc = "done" /\ rep_polls = 30 /\ rep_sleeps = 30
        /\ rep_last \notin {"succeeded", "failed"}
        /\ rep_result.msg # "Replicate API error: Connection error") =>
          rep_result = Raised(ReplicateTimeoutMsg)

C26_Ends ==
    /\ <>(rep_pc = "done")
    /\ [][rep_pc = "done" => UNCHANGED repVars]_vars

C26_ReturnsAtSucceeded ==
    (rep_terminal = 1 /\ rep_last = "succeeded") => rep_result.tag = "return"

C26_FailsAtFailed ==
    (rep_terminal = 1 /\ rep_last = "failed") => rep_result.tag = "raise"

C26_Original ==
    /\ C26_Ends
    /\ [](C26_Polls /\ C26_ReturnsAtSucceeded /\ C26_FailsAtFailed)

(***************************************************************************)
(* C26 amended: the same bounded polling and termination, where the call   *)
(* ends at the first poll reporting succeeded: it returns the joined       *)
(* output (parsed, or {} when unparsable, for json), and raises "Replicate *)
(* API error: ..." instead when the output of the succeeded prediction is  *)
(* null.                                                                   *)
(***************************************************************************)
C26_EndsAtSucceeded ==
    (rep_terminal = 1 /\ rep_last = "succeeded") =>
        \/ rep_result.tag = "return"
        \/ rep_result = Raised("Replicate API error: can only join an iterable")

C26_BoundedPolling ==
    /\ C26_Ends
    /\ [](C26_Polls /\ C26_EndsAtSucceeded /\ C26_FailsAtFailed)

\* C26 witness: thirty polls without a terminal status, then the timeout error
C26_Witness ==
    /\ rep_pc = "done"
    /\ rep_polls = 30 /\ rep_sleeps = 30
    /\ rep_terminal = 0
    /\ rep_result = Raised(ReplicateTimeoutMsg)

(***************************************************************************)
(* C27: for every provider implementation, the HTTP round trip inside      *)
(* generate() is a suspension point of the calling task: while one call is *)
(* waiting for a provider response, the other concurrent calls on the same *)
(* event loop can take their steps (start an attempt, end a sleep,         *)
(* complete), so no call is blocked by another call's in-flight request.   *)
(***************************************************************************)
C27_InFlightBlocksNobody ==
    \A t \in Tasks : \A u \in Tasks \ {t} :
        (loop_pc[t] = "in_flight" /\ loop_pc[u] # "done") =>
            ENABLED LoopStep(u)

(***************************************************************************)
(* C28 as stated: get_available_providers performs no de-duplication of    *)
(* kinds: when the primary provider's kind also appears as a key of        *)
(* llm_provider_keys with a usable key, the returned list holds two        *)
(* entries of that kind, and one call_llm_with_fallback call can attempt   *)
(* that kind twice (the second time with the llm_provider_keys credential  *)
(* and default model), each attempt consuming one of the max_retries       *)
(* slots.                                                                  *)
(***************************************************************************)
PrimaryKindOf(settings) == OrElse(settings.llm_provider, "openai")

\* the keys of llm_provider_keys that name the primary kind with a usable key
DuplicateKeys(settings) ==
    { i \in 1..Len(settings.llm_provider_keys) :
        LET provider_type == settings.llm_provider_keys[i][1]
            api_key == settings.llm_provider_keys[i][2]
        IN  /\ StrLower(provider_type) = PrimaryKindOf(settings)
            /\ \/ PrimaryKindOf(settings) = "ollama"
               \/ ~Falsy(api_key) /\ ~Falsy(StrStrip(api_key)) }

\* positions of the list that hold an entry of the kind
EntriesOfKind(list, kind) ==
    { i \in 1..Len(list) : list[i].provider_type = kind }

\* whether the primary entry itself is put on the list
PrimaryListed(settings) ==
    \/ PrimaryKindOf(settings) = "ollama"
    \/ ~Falsy(settings.llm_api_key)
    \/ PrimaryKindOf(settings) = "openai" /\ ~Falsy(settings.openai_api_key)

C28_Original ==
    (fb_pc # "start" /\ DuplicateKeys(user_settings) # {}) =>
        Cardinality(EntriesOfKind(available_providers,
                                  PrimaryKindOf(user_settings))) = 2

(***************************************************************************)
(* C28 amended: when the primary entry is itself listed (the kind is       *)
(* ollama or the primary has a non-empty key) and one key of               *)
(* llm_provider_keys names the same kind with a usable key, the list of    *)
(* call_llm_with_fallback holds two entries of that kind: the primary      *)
(* first, and later the entry of llm_provider_keys with the stripped       *)
(* credential (None for ollama) and no model.  Each attempted entry is one *)
(* of the first max_retries entries of the list, so the two attempts of    *)
(* the kind take two of the max_retries slots.  When the primary is not    *)
(* listed, the list holds the llm_provider_keys entry alone.               *)
(***************************************************************************)
C28_NoDeduplication ==
    (fb_pc # "start" /\ Cardinality(DuplicateKeys(user_settings)) = 1) =>
        LET kind == PrimaryKindOf(user_settings)
            of_kind == EntriesOfKind(available_providers, kind)
            k == CHOOSE i \in DuplicateKeys(user_settings) : TRUE
            second == CHOOSE i \in of_kind : \A j \in of_kind : j <= i
        IN  /\ IF PrimaryListed(user_settings)
               THEN /\ Cardinality(of_kind) = 2
                    /\ 1 \in of_kind
                    /\ available_providers[1].api_key =
                          IF Falsy(user_settings.llm_api_key)
                             /\ kind = "openai"
                          THEN user_settings.openai_api_key
                          ELSE user_settings.llm_api_key
               ELSE Cardinality(of_kind) = 1
            /\ available_providers[second].api_key =
                  IF kind = "ollama" THEN None
                  ELSE StrStrip(user_settings.llm_provider_keys[k][2])
            /\ available_providers[second].model = None
            /\ \A pos \in Attempted : pos <= fb_max_retries
            /\ Cardinality(Attempted \cap of_kind) <= fb_max_retries

\* C28 witness: generate() has failed for the primary gemini entry and is
\* awaited for the second gemini entry, made with the llm_provider_keys key
C28_Witness ==
    /\ fb_pc = "generate"
    /\ idx = 1
    /\ available_providers[1].provider_type = "gemini"
    /\ available_providers[2].provider_type = "gemini"
    /\ available_providers[1].api_key = "gm"
    /\ available_providers[2].api_key = "gm2"
    /\ FbEvents("generate", 1) # {}
    /\ FbEvents("create", 2) # {}
    /\ Len(errors) = 1

(***************************************************************************)
(* C29: in call_llm_with_fallback a failure to construct a provider        *)
(* (create_llm_provider raising, e.g. for an unknown kind) is handled like *)
(* a failed generate(): no generate() call is made for that entry, one     *)
(* (kind, message) entry is appended to the error log, one of the          *)
(* max_retries slots is consumed, and the loop continues with the next     *)
(* provider instead of failing the whole call.                             *)
(***************************************************************************)
CreateFailures ==
    { i \in 1..Len(fb_trace) : fb_trace[i].op = "create" /\ ~fb_trace[i].ok }

C29_CreateFailureLogged ==
    \A i \in CreateFailures :
        LET pos == fb_trace[i].pos
        IN  /\ FbEvents("generate", pos) = {}
            /\ Cardinality(FbEvents("create", pos)) = 1
            /\ pos <= fb_max_retries
            /\ idx >= pos
            /\ Len(errors) >= pos
            /\ errors[pos] =
                  <<available_providers[pos].provider_type, fb_trace[i].res>>
            /\ Len(errors) =
                  Cardinality({ j \in 1..Len(fb_trace) : ~fb_trace[j].ok })
            /\ fb_pc \in {"select", "generate", "done"}
            /\ fb_pc = "done" =>
                  \/ fb_result.tag = "return"
                  \/ /\ fb_result =
                          [tag |-> "raise", value |-> AggregateMessage(errors)]
                     /\ \A q \in 1..Len(Candidates(available_providers,
                                                   fb_max_retries)) :
                           q \in Attempted

C29_CreateFailureStep ==
    [][ (Len(fb_trace') = Len(fb_trace) + 1
         /\ fb_trace'[Len(fb_trace')].op = "create"
         /\ ~fb_trace'[Len(fb_trace')].ok)
        => /\ idx' = idx + 1
           /\ Len(errors') = Len(errors) + 1
           /\ fb_pc' = "select"
           /\ fb_result' = fb_result ]_vars

C29_CreateFailureContinues ==
    []C29_CreateFailureLogged /\ C29_CreateFailureStep

\* C29 witness: the first entry could not be constructed, and the call
\* returned the answer of the next provider
C29_Witness ==
    /\ fb_pc = "done"
    /\ fb_result.tag = "return"
    /\ 1 \in { fb_trace[i].pos : i \in CreateFailures }
    /\ errors = << <<"mistral", "Unknown provider type: mistral">> >>
    /\ FbEvents("generate", 2) # {}

(***************************************************************************)
(* C30: in generate_tutorial, if the user, settings, generation and        *)
(* repository records exist, cloning succeeds and every call_llm returns   *)
(* well-formed JSON with a non-empty outline, the job eventually sets the  *)
(* generation to status COMPLETED with generation_progress 100, and it     *)
(* never leaves the generation in a non-terminal status (CLONING,          *)
(* ANALYZING, PROCESSING, GENERATING) when it returns.                     *)
(***************************************************************************)
\* the records exist, the clone succeeds, and call_llm is made with a
\* provider of the settings and returns a non-empty outline
C30_Conditions ==
    /\ job_user /\ job_settings /\ job_generation /\ job_repo
    /\ job_clone_ok
    /\ job_has_key /\ job_provider_ok
    /\ job_llm_ok /\ job_outline >= 1

C30_Completes ==
    /\ (C30_Conditions /\ job_pc = "start") ~>
          (generation_status = "COMPLETED" /\ generation_progress = 100)
    /\ [](job_pc = "returned" =>
             generation_status \notin
                {"CLONING", "ANALYZING", "PROCESSING", "GENERATING"})

====
